---- MODULE Spec2Model ----
(***************************************************************************)
(* Tick-to-OHLCV conversion of bybit-historical-ohlcv-converter.           *)
(*                                                                         *)
(* Two scripts are modelled, each with its own TickToOHLCVConverter class: *)
(*   scripts/convert_to_1sec_ohlcv.py  the streaming 1-second converter    *)
(*   scripts/convert_to_ohlcv.py       the gap-filling converter           *)
(* A run executes one of the two (variable script).  download.py, which   *)
(* fetches the tick files and runs the scripts, is modelled from           *)
(* download_file on (script = "download").                                 *)
(*                                                                         *)
(* Representation.                                                         *)
(*   - A tick timestamp is a float number of seconds in the code.  Here it *)
(*     is an integer count of 1/Res seconds, so floor(timestamp) is        *)
(*     timestamp \div Res.  Bucket keys and candle timestamps are whole    *)
(*     seconds, as in the code (int(...)).                                 *)
(*     Where a run reads timestamps of any magnitude (SpecRaw), a          *)
(*     timestamp is a record of thousands and remainder instead; see       *)
(*     "Timestamps of any magnitude".                                      *)
(*   - Prices and sizes are floats in the code and small integers here;    *)
(*     float('inf') and float('-inf') are the integers PosInf and NegInf,  *)
(*     which compare above and below every price of the model.             *)
(*   - Python's None is the empty tuple; a value v that may be None is     *)
(*     carried as <<v>>.                                                    *)
(*   - The 'datetime' field of a candle is a function of its 'timestamp'   *)
(*     alone and is left out.                                              *)
(***************************************************************************)
EXTENDS Integers, Sequences, FiniteSets, TLC

VARIABLES
    script,             \* which script runs: "1sec", "ohlcv" or "download"
    pc,                 \* "reading"; "done" and "nodata": convert_file returned;
                        \* "called": generate_all_candles or get_final_candle was
                        \* called directly; "called_again": get_final_candle was
                        \* called a second time;
                        \* "invalid_timeframe": the constructor raised ValueError;
                        \* "error": an exception left convert_file;
                        \* download.py: "download_file" (at the head of its loop),
                        \* "sleeping" (in time.sleep), "returned";
                        \* "execute_download" (at the head of its loop over dates),
                        \* "execute_summary" (past the loop), "execute_returned",
                        \* "execute_raised" (returned from an except clause);
                        \* "process_date" (on entry), "date_check" (a call for one
                        \* market, before the check of the output files),
                        \* "date_try" (in the try block), "date_decompress",
                        \* "date_convert", "date_cleanup", "date_returned",
                        \* "date_raised" (an exception left process_date)
    rows,               \* the rows read from the input file so far
    candles,            \* 1sec: rows written to the output; ohlcv: the list returned by generate_all_candles
    current_second,     \* 1sec converter: self.current_second
    ohlcv_buffer,       \* 1sec converter: self.ohlcv_buffer
    timeframe,          \* ohlcv converter: the timeframe passed to the constructor
    ticks_by_interval,  \* ohlcv converter: self.ticks_by_interval
    min_timestamp,      \* ohlcv convert_file: min_timestamp
    max_timestamp,      \* ohlcv convert_file: max_timestamp
    window,             \* ohlcv: the (start_time, end_time) passed to generate_all_candles
    day_start,          \* ohlcv convert_file: day_start.timestamp()
    day_end,            \* ohlcv convert_file: day_end.timestamp()
    exit_code,          \* the exit status of the script, once main has ended
    header_written,     \* the output file was opened and writer.writeheader() has run
    max_retries,        \* download_file: the argument max_retries
    attempt,            \* download_file: the loop variable attempt
    outcomes,           \* download_file: how each urlopen/copy attempt made so far ended
    download_result,    \* download_file: the value returned, None until it returns
    dates,              \* execute_download: dates, as day numbers
    processed,          \* execute_download: the dates process_date was called for so far, each with how the call ended
    success_count,      \* execute_download: success_count
    failed_dates,       \* execute_download: failed_dates
    consecutive_failures, \* execute_download: consecutive_failures
    return_code,        \* execute_download: the value returned, None until it returns
    market_type,        \* process_date: the argument market_type: "futures", "spot" or "both"
    timeframes,         \* process_date: timeframes, the required ones
    market,             \* process_date: the market of the call for one market under way, None outside
    output_files,       \* the output files that exist, as (market, timeframe) pairs of the date
    temp_files,         \* per market, the files of the date in its temp directory: the .csv.gz, and what the .csv holds
    tf_index,           \* process_date: where "for tf in timeframes" of line 733 stands
    success,            \* process_date: success
    calls,              \* process_date: the calls made in this run, in order
    market_results,     \* process_date: what the calls for one market returned, in order
    date_result,        \* process_date: the value returned, None until it returns
    run                 \* how many times process_date was run for the date

\* the state of download.py: download_file, execute_download, process_date
retry_vars == <<max_retries, attempt, outcomes, download_result>>
execute_vars == <<dates, processed, success_count, failed_dates,
                  consecutive_failures, return_code>>
date_vars == <<market_type, timeframes, market, output_files, temp_files,
               tf_index, success, calls, market_results, date_result, run>>
download_vars == <<retry_vars, execute_vars, date_vars>>

\* the state of the converter scripts
converter_vars == <<rows, candles, current_second, ohlcv_buffer, timeframe,
                    ticks_by_interval, min_timestamp, max_timestamp, window,
                    day_start, day_end, exit_code, header_written>>

vars == <<script, pc, converter_vars, download_vars>>

----------------------------------------------------------------------------
(* Bounds of the model *)

\* longest input file, in rows
MaxTicks == 3
\* clock resolution: timestamps are counted in 1/Res seconds
Res == 2

\* 1970-01-02 00:00:00 UTC, the day the model's ticks start at
Day0 == 1 * 86400

Prices == {1, 2}
Sizes == {1, 2}
\* buckets, counted from Day0, in which ticks fall
TickBuckets == {0, 2}

None == <<>>
Some(v) == <<v>>

----------------------------------------------------------------------------
(* Helpers for Python built-ins *)

Max(a, b) == IF a >= b THEN a ELSE b
Min(a, b) == IF a <= b THEN a ELSE b

RECURSIVE SumSize(_)
SumSize(ticks) ==
    IF ticks = <<>> THEN 0 ELSE Head(ticks).size + SumSize(Tail(ticks))

RECURSIVE MaxPrice(_)
MaxPrice(ticks) ==
    IF Len(ticks) = 1 THEN ticks[1].price
    ELSE Max(ticks[1].price, MaxPrice(Tail(ticks)))

RECURSIVE MinPrice(_)
MinPrice(ticks) ==
    IF Len(ticks) = 1 THEN ticks[1].price
    ELSE Min(ticks[1].price, MinPrice(Tail(ticks)))

\* the timestamps, in 1/Res seconds, of the ticks of the model for an interval
\* of iv seconds: the first instant of each bucket of TickBuckets, and the
\* last instant of the first of them
TickTimes(iv) ==
    { (Day0 + b * iv) * Res : b \in TickBuckets } \cup { (Day0 + iv) * Res - 1 }

Ticks(iv) ==
    [timestamp : TickTimes(iv), price : Prices, size : Sizes]

----------------------------------------------------------------------------
(* scripts/convert_to_1sec_ohlcv.py *)

NegInf == -1000000
PosInf == 1000000

reset_buffer ==
    [open |-> None, high |-> NegInf, low |-> PosInf, close |-> None,
     volume |-> 0, trades |-> 0]

\* the dict built from current_second and ohlcv_buffer at lines 46-55 and 78-87
BufferCandle(cs, buf) ==
    [timestamp |-> cs[1], open |-> buf.open[1], high |-> buf.high,
     low |-> buf.low, close |-> buf.close[1], volume |-> buf.volume,
     trades |-> buf.trades]

\* mutant: the low is never updated
UpdateBuffer_KeepLow(buf, row) ==
    [open   |-> IF buf.open = None THEN Some(row.price) ELSE buf.open,
     high   |-> Max(buf.high, row.price),
     low    |-> buf.low,
     close  |-> Some(row.price),
     volume |-> buf.volume + row.size,
     trades |-> buf.trades + 1]

\* mutant: the high is overwritten by every price
UpdateBuffer_NoMax(buf, row) ==
    [open   |-> IF buf.open = None THEN Some(row.price) ELSE buf.open,
     high   |-> row.price,
     low    |-> Min(buf.low, row.price),
     close  |-> Some(row.price),
     volume |-> buf.volume + row.size,
     trades |-> buf.trades + 1]

\* lines 63-71: "Update OHLCV data"
UpdateBuffer(buf, row) ==
    [open   |-> IF buf.open = None THEN Some(row.price) ELSE buf.open,
     high   |-> Max(buf.high, row.price),
     low    |-> Min(buf.low, row.price),
     close  |-> Some(row.price),
     volume |-> buf.volume + row.size,
     trades |-> buf.trades + 1]

\* mutant: only a tick of a later second closes the open second; a tick of an
\* earlier second is merged into the open one
process_tick_1sec_Merge(cs, buf, row) ==
    LET tick_second == row.timestamp \div Res
        flush       == cs # None /\ tick_second > cs[1]
        result      == IF flush /\ buf[1].open # None
                       THEN Some(BufferCandle(cs, buf[1])) ELSE None
        fresh       == cs = None \/ flush
        cs2         == IF fresh THEN Some(tick_second) ELSE cs
        buf2        == IF fresh THEN reset_buffer ELSE buf[1]
    IN  [current_second |-> cs2, ohlcv_buffer |-> Some(UpdateBuffer(buf2, row)),
         result |-> result]

\* mutant: the ticks are bucketed by the minute
process_tick_1sec_Minute(cs, buf, row) ==
    LET tick_second == (row.timestamp \div (Res * 60)) * 60
        flush       == cs # None /\ Some(tick_second) # cs
        result      == IF flush /\ buf[1].open # None
                       THEN Some(BufferCandle(cs, buf[1])) ELSE None
        buf1        == IF flush THEN Some(reset_buffer) ELSE buf
        cs2         == IF cs # Some(tick_second) THEN Some(tick_second) ELSE cs
        buf2        == IF cs # Some(tick_second) THEN reset_buffer ELSE buf1[1]
    IN  [current_second |-> cs2, ohlcv_buffer |-> Some(UpdateBuffer(buf2, row)),
         result |-> result]

\* mutant: the buffer is not reset when a second is closed
process_tick_1sec_at_NoReset(cs, buf, tick_second, row) ==
    LET flush  == cs # None /\ Some(tick_second) # cs
        result == IF flush /\ buf[1].open # None
                  THEN Some(BufferCandle(cs, buf[1])) ELSE None
        buf2   == IF cs = None THEN reset_buffer ELSE buf[1]
    IN  [current_second |-> Some(tick_second),
         ohlcv_buffer |-> Some(UpdateBuffer(buf2, row)),
         result |-> result]

\* process_tick(row), lines 42-73, on a converter whose fields are cs and buf
\* (buf is Some(buffer) or None), tick_second being the value computed at line
\* 40: the fields after the call and the value returned
process_tick_1sec_at(cs, buf, tick_second, row) ==
    LET flush       == cs # None /\ Some(tick_second) # cs
        result      == IF flush /\ buf[1].open # None
                       THEN Some(BufferCandle(cs, buf[1])) ELSE None
        buf1        == IF flush THEN Some(reset_buffer) ELSE buf
        cs2         == IF cs # Some(tick_second) THEN Some(tick_second) ELSE cs
        buf2        == IF cs # Some(tick_second) THEN reset_buffer ELSE buf1[1]
    IN  [current_second |-> cs2, ohlcv_buffer |-> Some(UpdateBuffer(buf2, row)),
         result |-> result]

\* process_tick(row) for a timestamp counted in 1/Res seconds
process_tick_1sec(cs, buf, row) ==
    process_tick_1sec_at(cs, buf, row.timestamp \div Res, row)

\* mutant: the candle of the last second is never returned
get_final_candle_Never(cs, buf) == None

\* mutant: a candle is returned even when no second was opened
get_final_candle_Always(cs, buf) ==
    IF cs # None /\ buf[1].open # None
    THEN Some(BufferCandle(cs, buf[1]))
    ELSE Some([timestamp |-> 0, open |-> 0, high |-> NegInf, low |-> PosInf,
               close |-> 0, volume |-> 0, trades |-> 0])

get_final_candle(cs, buf) ==
    IF cs # None /\ buf[1].open # None
    THEN Some(BufferCandle(cs, buf[1])) ELSE None

\* writer.writerow(candle) when the candle is not None
WriteRow(out, candle) == IF candle # None THEN Append(out, candle[1]) ELSE out

\* convert_file, one iteration of "for row in reader"
StreamRow(row) ==
    /\ script = "1sec" /\ pc = "reading"
    /\ Len(rows) < MaxTicks
    /\ LET r == process_tick_1sec(current_second, ohlcv_buffer, row)
       IN  /\ current_second' = r.current_second
           /\ ohlcv_buffer' = r.ohlcv_buffer
           /\ candles' = WriteRow(candles, r.result)
    /\ rows' = Append(rows, row)
    /\ UNCHANGED download_vars
    /\ UNCHANGED <<script, pc, timeframe, ticks_by_interval, min_timestamp,
                   max_timestamp, window, day_start, day_end, exit_code,
                   header_written>>

\* convert_file, after the loop: the last candle
StreamEnd ==
    /\ script = "1sec" /\ pc = "reading"
    /\ candles' = WriteRow(candles, get_final_candle(current_second, ohlcv_buffer))
    /\ pc' = "done"
    /\ exit_code' = Some(0)
    /\ UNCHANGED download_vars
    /\ UNCHANGED <<script, rows, current_second, ohlcv_buffer, timeframe,
                   ticks_by_interval, min_timestamp, max_timestamp, window,
                   day_start, day_end, header_written>>


\* get_final_candle() called on the converter directly, a first and a second
\* time, the candles returned being collected by the caller
StreamFinalCall ==
    /\ script = "1sec" /\ pc \in {"reading", "called"}
    /\ candles' = WriteRow(candles, get_final_candle(current_second, ohlcv_buffer))
    /\ pc' = IF pc = "reading" THEN "called" ELSE "called_again"
    /\ UNCHANGED download_vars
    /\ UNCHANGED <<script, rows, current_second, ohlcv_buffer, timeframe,
                   ticks_by_interval, min_timestamp, max_timestamp, window,
                   day_start, day_end, exit_code, header_written>>

----------------------------------------------------------------------------
(* scripts/convert_to_ohlcv.py *)

TIMEFRAMES ==
    [tf \in {"1s", "1m", "5m", "15m", "1h", "4h", "1d"} |->
        CASE tf = "1s"  -> 1
          [] tf = "1m"  -> 60
          [] tf = "5m"  -> 300
          [] tf = "15m" -> 900
          [] tf = "1h"  -> 3600
          [] tf = "4h"  -> 14400
          [] tf = "1d"  -> 86400]

\* the timeframes a run of the model is started with
ModelTimeframes == {"1s", "4h", "1d"}
\* a timeframe that is not a key of TIMEFRAMES
UnsupportedTimeframes == {"2h"}

\* mutant: the constructor accepts every timeframe
init_ohlcv_Unchecked(tf) == "reading"

\* TickToOHLCVConverter.__init__(timeframe), lines 30-32: whether the
\* constructor returns, and convert_file goes on to read, or raises ValueError
init_ohlcv(tf) ==
    IF tf \notin DOMAIN TIMEFRAMES THEN "invalid_timeframe" ELSE "reading"

\* the UTC offsets, in seconds, of the local time zone that
\* datetime.fromtimestamp and datetime.timestamp use: UTC and UTC+9
TzOffsets == {0, 9 * 3600}

interval_seconds == TIMEFRAMES[timeframe]

\* mutant: the timestamp is rounded to the nearest bucket
get_interval_Nearest(iv, timestamp) ==
    ((timestamp + (Res * iv) \div 2) \div (Res * iv)) * iv

\* int(math.floor(timestamp / interval_seconds) * interval_seconds), for a
\* timestamp counted in 1/Res seconds; the result is in seconds
get_interval(iv, timestamp) == (timestamp \div (Res * iv)) * iv

\* lines 57-64: self.ticks_by_interval after the tick is stored under its key
StoreTick(tbi, tick_interval, tick) ==
    IF tick_interval \notin DOMAIN tbi
    THEN [k \in DOMAIN tbi \cup {tick_interval} |->
             IF k = tick_interval THEN <<tick>> ELSE tbi[k]]
    ELSE [tbi EXCEPT ![tick_interval] = Append(@, tick)]

\* process_tick(row): self.ticks_by_interval after the call.  The timestamps
\* of these rows are below 1e10, so line 47 is not taken; process_tick_raw
\* below is the same method on rows with a timestamp of any magnitude.
process_tick_ohlcv(tbi, iv, row) ==
    StoreTick(tbi, get_interval(iv, row.timestamp),
              [timestamp |-> row.timestamp, price |-> row.price, size |-> row.size])

\* mutant: the ticks stay in order of arrival
SortedByTimestamp_Arrival(ticks) == ticks

\* sorted(ticks, key=lambda x: x['timestamp']): Python's sort is stable
RECURSIVE SortedByTimestamp(_)
SortedByTimestamp(ticks) ==
    IF ticks = <<>> THEN <<>>
    ELSE LET n    == Len(ticks)
             init == SortedByTimestamp(SubSeq(ticks, 1, n - 1))
             last == ticks[n]
             k    == Cardinality({i \in 1..(n - 1) : init[i].timestamp <= last.timestamp})
         IN  SubSeq(init, 1, k) \o <<last>> \o SubSeq(init, k + 1, n - 1)

\* mutant: the high is taken from the first tick
get_ohlcv_for_interval_HighIsOpen(interval_timestamp, ticks) ==
    IF ticks = <<>> THEN None
    ELSE LET sorted == SortedByTimestamp(ticks)
         IN  Some([timestamp |-> interval_timestamp,
                   open      |-> sorted[1].price,
                   high      |-> sorted[1].price,
                   low       |-> MinPrice(sorted),
                   close     |-> sorted[Len(sorted)].price,
                   volume    |-> SumSize(sorted),
                   trades    |-> Len(sorted)])

\* mutant: the volume is the size of the last tick alone
get_ohlcv_for_interval_LastVolume(interval_timestamp, ticks) ==
    IF ticks = <<>> THEN None
    ELSE LET sorted == SortedByTimestamp(ticks)
         IN  Some([timestamp |-> interval_timestamp,
                   open      |-> sorted[1].price,
                   high      |-> MaxPrice(sorted),
                   low       |-> MinPrice(sorted),
                   close     |-> sorted[Len(sorted)].price,
                   volume    |-> sorted[Len(sorted)].size,
                   trades    |-> Len(sorted)])

\* mutant: open and close are taken in order of arrival
get_ohlcv_for_interval_Unsorted(interval_timestamp, ticks) ==
    IF ticks = <<>> THEN None
    ELSE Some([timestamp |-> interval_timestamp,
               open      |-> ticks[1].price,
               high      |-> MaxPrice(ticks),
               low       |-> MinPrice(ticks),
               close     |-> ticks[Len(ticks)].price,
               volume    |-> SumSize(ticks),
               trades    |-> Len(ticks)])

get_ohlcv_for_interval(interval_timestamp, ticks) ==
    IF ticks = <<>> THEN None
    ELSE LET sorted == SortedByTimestamp(ticks)
         IN  Some([timestamp |-> interval_timestamp,
                   open      |-> sorted[1].price,
                   high      |-> MaxPrice(sorted),
                   low       |-> MinPrice(sorted),
                   close     |-> sorted[Len(sorted)].price,
                   volume    |-> SumSize(sorted),
                   trades    |-> Len(sorted)])

SetMin(S) == CHOOSE x \in S : \A y \in S : x <= y

\* mutant: no price is looked up for the gap at the beginning
NextOpen_None(tbi, start_time) == None

\* lines 98-106: the price used to fill the gap at the beginning
NextOpen(tbi, start_time) ==
    IF DOMAIN tbi # {}
    THEN LET first_interval == SetMin(DOMAIN tbi)
         IN  IF first_interval > start_time /\ tbi[first_interval] # <<>>
             THEN Some(SortedByTimestamp(tbi[first_interval])[1].price)
             ELSE None
    ELSE None

\* mutant: a filled candle counts a trade
FillCandle_OneTrade(current_time, fill_price) ==
    [timestamp |-> current_time, open |-> fill_price, high |-> fill_price,
     low |-> fill_price, close |-> fill_price, volume |-> 0, trades |-> 1]

\* lines 131-140: the gap-filled candle
FillCandle(current_time, fill_price) ==
    [timestamp |-> current_time, open |-> fill_price, high |-> fill_price,
     low |-> fill_price, close |-> fill_price, volume |-> 0, trades |-> 0]

\* mutant: buckets without ticks get no candle
RECURSIVE Walk_SkipGaps(_, _, _, _, _, _, _)
Walk_SkipGaps(tbi, iv, current_time, end_time, out, last_close, next_open) ==
    IF current_time > end_time THEN out
    ELSE IF current_time \in DOMAIN tbi /\ tbi[current_time] # <<>>
    THEN LET candle == get_ohlcv_for_interval(current_time, tbi[current_time])
         IN  Walk_SkipGaps(tbi, iv, current_time + iv, end_time,
                           Append(out, candle[1]), Some(candle[1].close), next_open)
    ELSE Walk_SkipGaps(tbi, iv, current_time + iv, end_time, out, last_close, next_open)

\* lines 109-144: the while loop, from current_time on
RECURSIVE Walk(_, _, _, _, _, _, _)
Walk(tbi, iv, current_time, end_time, out, last_close, next_open) ==
    IF current_time > end_time THEN out
    ELSE IF current_time \in DOMAIN tbi
    THEN LET candle == get_ohlcv_for_interval(current_time, tbi[current_time])
         IN  IF candle # None
             THEN Walk(tbi, iv, current_time + iv, end_time,
                       Append(out, candle[1]), Some(candle[1].close), next_open)
             ELSE Walk(tbi, iv, current_time + iv, end_time, out, last_close, next_open)
    ELSE IF last_close # None
    THEN Walk(tbi, iv, current_time + iv, end_time,
              Append(out, FillCandle(current_time, last_close[1])), last_close, next_open)
    ELSE IF next_open # None
    THEN Walk(tbi, iv, current_time + iv, end_time,
              Append(out, FillCandle(current_time, next_open[1])), last_close, next_open)
    ELSE Walk(tbi, iv, current_time + iv, end_time, out, last_close, next_open)

\* mutant: the walk stops before the bucket of end_time
generate_all_candles_Exclusive(tbi, iv, start_time, end_time) ==
    Walk(tbi, iv, start_time, end_time - iv, <<>>, None, NextOpen(tbi, start_time))

generate_all_candles(tbi, iv, start_time, end_time) ==
    Walk(tbi, iv, start_time, end_time, <<>>, None, NextOpen(tbi, start_time))

\* lines 191-200: day_start and day_end as timestamps, from the earliest
\* timestamp and the UTC offset tz of the local time zone
\* mutant: the session always starts at 09:00 of the first tick's own day
SessionDay_SameDay(min_ts, tz) ==
    LET local == (min_ts \div Res) + tz
        nine  == local - (local % 86400) + 9 * 3600
        start == nine - tz
    IN  <<start, start + 24 * 3600 - 1>>

SessionDay(min_ts, tz) ==
    LET local == (min_ts \div Res) + tz
        hour  == (local % 86400) \div 3600
        nine  == local - (local % 86400) + 9 * 3600
        start == (IF hour < 9 THEN nine - 86400 ELSE nine) - tz
    IN  <<start, start + 24 * 3600 - 1>>

\* lines 203-205: start_interval and end_interval
SessionWindow(iv, min_ts, tz) ==
    LET d == SessionDay(min_ts, tz)
    IN  <<get_interval(iv, d[1] * Res), get_interval(iv, d[2] * Res)>>

\* the windows generate_all_candles is called with directly, in buckets
\* counted from Day0
CallWindows == { w \in {-1, 0, 1} \X {0, 1, 3} : w[1] <= w[2] }

\* the longest session window, in buckets, that the model walks
MaxWalk == 24

\* convert_file, one iteration of "for row in reader" (lines 163-177)
GapRow(row) ==
    /\ script = "ohlcv" /\ pc = "reading"
    /\ Len(rows) < MaxTicks
    /\ ticks_by_interval' = process_tick_ohlcv(ticks_by_interval, interval_seconds, row)
    /\ min_timestamp' = IF min_timestamp = None \/ row.timestamp < min_timestamp[1]
                        THEN Some(row.timestamp) ELSE min_timestamp
    /\ max_timestamp' = IF max_timestamp = None \/ row.timestamp > max_timestamp[1]
                        THEN Some(row.timestamp) ELSE max_timestamp
    /\ rows' = Append(rows, row)
    /\ UNCHANGED download_vars
    /\ UNCHANGED <<script, pc, candles, current_second, ohlcv_buffer, timeframe, window,
                   day_start, day_end, exit_code,
                   header_written>>

\* convert_file, lines 185-187: no row was read
GapNoData ==
    /\ script = "ohlcv" /\ pc = "reading"
    /\ min_timestamp = None \/ max_timestamp = None
    /\ pc' = "nodata"
    /\ exit_code' = Some(0)
    /\ UNCHANGED download_vars
    /\ UNCHANGED <<script, rows, candles, current_second, ohlcv_buffer, timeframe,
                   ticks_by_interval, min_timestamp, max_timestamp, window,
                   day_start, day_end, header_written>>

\* convert_file, lines 189-220: the session window and its candles
GapEnd(tz) ==
    /\ script = "ohlcv" /\ pc = "reading"
    /\ min_timestamp # None /\ max_timestamp # None
    /\ LET w == SessionWindow(interval_seconds, min_timestamp[1], tz)
           d == SessionDay(min_timestamp[1], tz)
       IN  /\ (w[2] - w[1]) \div interval_seconds < MaxWalk
           /\ day_start' = Some(d[1])
           /\ day_end' = Some(d[2])
           /\ window' = Some(w)
           /\ candles' = generate_all_candles(ticks_by_interval, interval_seconds, w[1], w[2])
    /\ header_written' = TRUE
    /\ pc' = "done"
    /\ exit_code' = Some(0)
    /\ UNCHANGED download_vars
    /\ UNCHANGED <<script, rows, current_second, ohlcv_buffer, timeframe,
                   ticks_by_interval, min_timestamp, max_timestamp>>

\* generate_all_candles(start_time, end_time) called on the converter with a
\* window of the caller's choice
GapCall(start_time, end_time) ==
    /\ script = "ohlcv" /\ pc = "reading"
    /\ window' = Some(<<start_time, end_time>>)
    /\ candles' = generate_all_candles(ticks_by_interval, interval_seconds,
                                       start_time, end_time)
    /\ pc' = "called"
    /\ UNCHANGED download_vars
    /\ UNCHANGED <<script, rows, current_second, ohlcv_buffer, timeframe,
                   ticks_by_interval, min_timestamp, max_timestamp,
                   day_start, day_end, exit_code,
                   header_written>>

----------------------------------------------------------------------------
(* Timestamps of any magnitude *)

\* A millisecond timestamp such as 1700000000000 is beyond the integers of the
\* model checker.  Where the magnitude of a timestamp matters it is carried as
\* a record [k, r] that stands for k * 1000 + r / Res, with 0 <= r < 1000 * Res:
\* k counts the thousands and r the rest in 1/Res.  Timestamps are not
\* negative.
Wide(k, r) == [k |-> k, r |-> r]

WideLess(a, b) == a.k < b.k \/ (a.k = b.k /\ a.r < b.r)

\* timestamp > 1e10
Exceeds1e10(x) == x.k > 10000000 \/ (x.k = 10000000 /\ x.r > 0)

\* timestamp / 1000, rounded down to the clock resolution
DivThousand(x) == Wide(x.k \div 1000, (x.k % 1000) * Res + x.r \div 1000)

\* math.floor(timestamp)
FloorWide(x) == Wide(x.k, (x.r \div Res) * Res)

\* mutant: 1e10 itself is taken for milliseconds
process_tick_timestamp_AtLeast(raw) ==
    IF Exceeds1e10(raw) \/ raw = Wide(10000000, 0) THEN DivThousand(raw) ELSE raw

\* convert_to_ohlcv.py process_tick, lines 44-47: the timestamp of the tick
process_tick_timestamp(raw) ==
    IF Exceeds1e10(raw) THEN DivThousand(raw) ELSE raw

\* convert_to_ohlcv.py convert_file, lines 169-172: the timestamp tracked as
\* minimum and maximum
convert_file_timestamp(raw) ==
    IF Exceeds1e10(raw) THEN DivThousand(raw) ELSE raw

\* convert_to_1sec_ohlcv.py process_tick, lines 35 and 40: tick_second
stream_tick_second(raw) == FloorWide(raw)

\* get_interval(timestamp) = int(math.floor(timestamp / iv) * iv): the
\* remainder of the whole seconds modulo iv is taken off, borrowing from the
\* thousands
get_interval_wide(iv, x) ==
    LET w   == x.r \div Res
        m   == ((x.k % iv) * 1000 + w) % iv
        low == w - m
        b   == IF low >= 0 THEN 0 ELSE (999 - low) \div 1000
    IN  Wide(x.k - b, (low + 1000 * b) * Res)

\* datetime.fromtimestamp(x) returns: x is before the year 10000 (counted in
\* UTC; the local time zone moves the limit by its offset).  Beyond it
\* fromtimestamp raises ValueError.
FromTimestampOk(x) == x.k < 253402300 \/ (x.k = 253402300 /\ x.r < 800 * Res)

\* convert_to_ohlcv.py process_tick(row) on a row with a timestamp of any
\* magnitude
process_tick_raw(tbi, iv, row) ==
    LET timestamp == process_tick_timestamp(row.timestamp)
    IN  StoreTick(tbi, get_interval_wide(iv, timestamp),
                  [timestamp |-> timestamp, price |-> row.price, size |-> row.size])

\* the timestamps of the rows: 1700000000000 and 1700000000500 (milliseconds),
\* 1700000000 (seconds), and 1e10 and 1e10 + 1 on either side of the threshold
RawTimestamps ==
    { Wide(1700000000, 0), Wide(1700000000, 500 * Res), Wide(1700000, 0),
      Wide(10000000, 0), Wide(10000000, Res) }

RawTicks == [timestamp : RawTimestamps, price : Prices, size : {1}]

\* convert_to_ohlcv.py convert_file, one iteration of "for row in reader"
\* (lines 163-177)
RawGapRow(row) ==
    /\ script = "ohlcv" /\ pc = "reading"
    /\ Len(rows) < MaxTicks
    /\ ticks_by_interval' = process_tick_raw(ticks_by_interval, interval_seconds, row)
    /\ LET timestamp == convert_file_timestamp(row.timestamp)
       IN  /\ min_timestamp' = IF min_timestamp = None \/ WideLess(timestamp, min_timestamp[1])
                               THEN Some(timestamp) ELSE min_timestamp
           /\ max_timestamp' = IF max_timestamp = None \/ WideLess(max_timestamp[1], timestamp)
                               THEN Some(timestamp) ELSE max_timestamp
    /\ rows' = Append(rows, row)
    /\ UNCHANGED download_vars
    /\ UNCHANGED <<script, pc, candles, current_second, ohlcv_buffer, timeframe, window,
                   day_start, day_end, exit_code,
                   header_written>>

\* convert_to_1sec_ohlcv.py convert_file, one iteration of "for row in reader":
\* when process_tick closes a second beyond the range of
\* datetime.fromtimestamp, line 48 raises ValueError, convert_file lets it
\* through and main exits with status 1
RawStreamRow(row) ==
    /\ script = "1sec" /\ pc = "reading"
    /\ Len(rows) < MaxTicks
    /\ rows' = Append(rows, row)
    /\ LET tick_second == stream_tick_second(row.timestamp)
           r == process_tick_1sec_at(current_second, ohlcv_buffer, tick_second, row)
       IN  IF r.result # None /\ ~FromTimestampOk(current_second[1])
           THEN /\ pc' = "error"
                /\ exit_code' = Some(1)
                /\ UNCHANGED <<current_second, ohlcv_buffer, candles>>
           ELSE /\ current_second' = r.current_second
                /\ ohlcv_buffer' = r.ohlcv_buffer
                /\ candles' = WriteRow(candles, r.result)
                /\ UNCHANGED <<pc, exit_code>>
    /\ UNCHANGED download_vars
    /\ UNCHANGED <<script, timeframe, ticks_by_interval, min_timestamp,
                   max_timestamp, window, day_start, day_end, header_written>>

\* convert_to_1sec_ohlcv.py convert_file, after the loop: get_final_candle
\* raises at line 80 in the same way
RawStreamEnd ==
    /\ script = "1sec" /\ pc = "reading"
    /\ LET final == get_final_candle(current_second, ohlcv_buffer)
       IN  IF final # None /\ ~FromTimestampOk(current_second[1])
           THEN /\ pc' = "error"
                /\ exit_code' = Some(1)
                /\ UNCHANGED candles
           ELSE /\ pc' = "done"
                /\ exit_code' = Some(0)
                /\ candles' = WriteRow(candles, final)
    /\ UNCHANGED download_vars
    /\ UNCHANGED <<script, rows, current_second, ohlcv_buffer, timeframe,
                   ticks_by_interval, min_timestamp, max_timestamp, window,
                   day_start, day_end, header_written>>

----------------------------------------------------------------------------
(* Rows as csv.DictReader hands them over *)

\* A field of a row is a number that float() reads, a text that float()
\* refuses (an empty field, the None of a short row, letters), or there is no
\* such column in the header and the key is not in the row.
Number(v) == [kind |-> "number", val |-> v]
Text == [kind |-> "text", val |-> 0]
NoColumn == [kind |-> "nocolumn", val |-> 0]

\* float(row[...]) returns
Readable(cell) == cell.kind = "number"

\* convert_to_1sec_ohlcv.py process_tick, lines 35-37: the tick read from the
\* row, or None when one of the three conversions raises
parse_row_1sec(row) ==
    IF Readable(row.timestamp) /\ Readable(row.price) /\ Readable(row.size)
    THEN Some([timestamp |-> row.timestamp.val, price |-> row.price.val,
               size |-> row.size.val])
    ELSE None

\* convert_to_ohlcv.py line 51: row.get('size', row.get('volume', 0))
quantity_cell_ohlcv(row) ==
    IF row.size.kind # "nocolumn" THEN row.size
    ELSE IF row.volume.kind # "nocolumn" THEN row.volume
    ELSE Number(0)

\* mutant: a price that float() refuses is read as 0
parse_row_ohlcv_ZeroPrice(row) ==
    IF Readable(row.timestamp) /\ Readable(quantity_cell_ohlcv(row))
    THEN Some([timestamp |-> row.timestamp.val, price |-> row.price.val,
               size |-> quantity_cell_ohlcv(row).val])
    ELSE None

\* convert_to_ohlcv.py process_tick, lines 45-51: the tick read from the row,
\* or None when one of the conversions raises
parse_row_ohlcv(row) ==
    IF /\ Readable(row.timestamp) /\ Readable(row.price)
       /\ Readable(quantity_cell_ohlcv(row))
    THEN Some([timestamp |-> row.timestamp.val, price |-> row.price.val,
               size |-> quantity_cell_ohlcv(row).val])
    ELSE None

\* the rows of the input files, for an interval of iv seconds
CsvRows(iv) ==
    [timestamp : {Number(Day0 * Res), Number((Day0 + 2 * iv) * Res), NoColumn},
     price     : {Number(1), Text},
     size      : {Number(1), Text, NoColumn},
     volume    : {Number(2), NoColumn}]

\* an exception leaves convert_file: main prints it and exits with status 1
\* (lines 279-283 of convert_to_ohlcv.py, 184-186 of convert_to_1sec_ohlcv.py)
Abort ==
    /\ pc' = "error"
    /\ exit_code' = Some(1)
    /\ UNCHANGED download_vars
    /\ UNCHANGED <<script, rows, candles, current_second, ohlcv_buffer, timeframe,
                   ticks_by_interval, min_timestamp, max_timestamp, window,
                   day_start, day_end, header_written>>

\* convert_to_1sec_ohlcv.py convert_file, one iteration of "for row in reader"
\* on a row that may be malformed
CsvStreamRow(row) ==
    /\ script = "1sec" /\ pc = "reading"
    /\ Len(rows) < MaxTicks
    /\ IF parse_row_1sec(row) = None THEN Abort
       ELSE StreamRow(parse_row_1sec(row)[1])

\* convert_to_ohlcv.py convert_file, one iteration of "for row in reader" on a
\* row that may be malformed
CsvGapRow(row) ==
    /\ script = "ohlcv" /\ pc = "reading"
    /\ Len(rows) < MaxTicks
    /\ IF parse_row_ohlcv(row) = None THEN Abort
       ELSE GapRow(parse_row_ohlcv(row)[1])

\* mutant: the next call of convert_file goes on with the converter of the
\* call before
Rerun_SameConverter ==
    /\ pc \in {"done", "nodata", "error"}
    /\ pc' = "reading"
    /\ timeframe' \in (IF script = "1sec" THEN {"1s"} ELSE {timeframe})
    /\ rows' = <<>>
    /\ candles' = <<>>
    /\ min_timestamp' = None
    /\ max_timestamp' = None
    /\ window' = None
    /\ day_start' = None
    /\ day_end' = None
    /\ exit_code' = None
    /\ header_written' = (script = "1sec")
    /\ UNCHANGED download_vars
    /\ UNCHANGED <<script, current_second, ohlcv_buffer, ticks_by_interval>>

\* convert_file is called again after it has returned or raised: its local
\* variables start afresh and it constructs a converter of its own (line 147
\* of convert_to_ohlcv.py, line 96 of convert_to_1sec_ohlcv.py)
Rerun ==
    /\ pc \in {"done", "nodata", "error"}
    /\ pc' = "reading"
    /\ timeframe' \in (IF script = "1sec" THEN {"1s"} ELSE ModelTimeframes)
    /\ rows' = <<>>
    /\ candles' = <<>>
    /\ current_second' = None
    /\ ohlcv_buffer' = None
    /\ ticks_by_interval' = <<>>
    /\ min_timestamp' = None
    /\ max_timestamp' = None
    /\ window' = None
    /\ day_start' = None
    /\ day_end' = None
    /\ exit_code' = None
    /\ header_written' = (script = "1sec")
    /\ UNCHANGED download_vars
    /\ UNCHANGED script

----------------------------------------------------------------------------
(* download.py: download_file *)

\* the largest max_retries download_file is called with
MaxRetries == 4

\* how one pass through the try block (lines 566-575) can end: the file was
\* copied; urlopen raised URLError or HTTPError; anything else was raised
Retryable == {"URLError", "HTTPError"}
Outcomes == {"ok", "Exception"} \cup Retryable

\* download.py not running
\* download_file not running
NoRetry ==
    /\ max_retries = 0
    /\ attempt = 0
    /\ outcomes = <<>>
    /\ download_result = None

\* execute_download not running
NoExecute ==
    /\ dates = <<>>
    /\ processed = <<>>
    /\ success_count = 0
    /\ failed_dates = <<>>
    /\ consecutive_failures = 0
    /\ return_code = None

\* process_date not running
NoDate ==
    /\ market_type = "futures"
    /\ timeframes = <<>>
    /\ market = None
    /\ output_files = {}
    /\ temp_files = <<>>
    /\ tf_index = 1
    /\ success = TRUE
    /\ calls = <<>>
    /\ market_results = <<>>
    /\ date_result = None
    /\ run = 0

NoDownload == NoRetry /\ NoExecute /\ NoDate

\* the converter scripts not running
NoConverter ==
    /\ rows = <<>>
    /\ candles = <<>>
    /\ current_second = None
    /\ ohlcv_buffer = None
    /\ timeframe = "1s"
    /\ ticks_by_interval = <<>>
    /\ min_timestamp = None
    /\ max_timestamp = None
    /\ window = None
    /\ day_start = None
    /\ day_end = None
    /\ exit_code = None
    /\ header_written = FALSE

\* mutant: an error left by the last attempt is retried once more
download_file_attempt_OneMore(outcome) ==
    /\ script = "download" /\ pc = "download_file"
    /\ attempt < max_retries + 1
    /\ outcomes' = Append(outcomes, outcome)
    /\ IF outcome = "ok"
       THEN pc' = "returned" /\ download_result' = Some(TRUE)
       ELSE IF outcome \in Retryable /\ attempt < max_retries
            THEN pc' = "sleeping" /\ download_result' = download_result
            ELSE pc' = "returned" /\ download_result' = Some(FALSE)
    /\ UNCHANGED <<script, max_retries, attempt, converter_vars, execute_vars, date_vars>>

\* one iteration of "for attempt in range(max_retries)" up to its return or
\* its time.sleep (lines 565-587)
download_file_attempt(outcome) ==
    /\ script = "download" /\ pc = "download_file"
    /\ attempt < max_retries
    /\ outcomes' = Append(outcomes, outcome)
    /\ IF outcome = "ok"
       THEN pc' = "returned" /\ download_result' = Some(TRUE)
       ELSE IF outcome \in Retryable /\ attempt < max_retries - 1
            THEN pc' = "sleeping" /\ download_result' = download_result
            ELSE pc' = "returned" /\ download_result' = Some(FALSE)
    /\ UNCHANGED <<script, max_retries, attempt, converter_vars, execute_vars, date_vars>>

\* time.sleep(2 ** attempt) returns and the loop takes its next value (lines
\* 580, 565)
download_file_retry ==
    /\ script = "download" /\ pc = "sleeping"
    /\ attempt' = attempt + 1
    /\ pc' = "download_file"
    /\ UNCHANGED <<script, max_retries, outcomes, download_result, converter_vars,
                   execute_vars, date_vars>>

\* the loop is exhausted on entry: "return False" of line 589
download_file_exhausted ==
    /\ script = "download" /\ pc = "download_file"
    /\ attempt >= max_retries
    /\ pc' = "returned"
    /\ download_result' = Some(FALSE)
    /\ UNCHANGED <<script, max_retries, attempt, outcomes, converter_vars,
                   execute_vars, date_vars>>

----------------------------------------------------------------------------
(* download.py: execute_download *)

\* the longest range of dates, in days
MaxDays == 6

\* generate_dates(start_date, end_date), lines 532-537: the days from
\* start_date to end_date, both included
generate_dates(start_date, end_date) ==
    [k \in 1..(end_date - start_date + 1) |-> start_date + k - 1]

\* how a call of process_date ends for execute_download: it returns True or
\* False, or an exception leaves it (the mkdir calls of lines 675 and 699 are
\* outside its try block)
DateResults == {"True", "False", "raise"}

\* mutant: a successful date does not reset consecutive_failures
execute_download_date_NoReset(result) ==
    /\ script = "download" /\ pc = "execute_download"
    /\ Len(processed) < Len(dates)
    /\ processed' = Append(processed,
                           [date |-> dates[Len(processed) + 1], result |-> result])
    /\ IF result = "True"
       THEN /\ success_count' = success_count + 1
            /\ pc' = pc
            /\ UNCHANGED <<failed_dates, return_code, consecutive_failures>>
       ELSE IF result = "False"
       THEN /\ failed_dates' = Append(failed_dates, dates[Len(processed) + 1])
            /\ consecutive_failures' = consecutive_failures + 1
            /\ pc' = IF consecutive_failures + 1 >= 3 THEN "execute_summary" ELSE pc
            /\ UNCHANGED <<success_count, return_code>>
       ELSE /\ pc' = "execute_raised"
            /\ return_code' = Some(1)
            /\ UNCHANGED <<success_count, failed_dates, consecutive_failures>>
    /\ UNCHANGED <<script, dates, converter_vars, retry_vars, date_vars>>

\* one iteration of "for i, date in enumerate(dates, 1)" (lines 298-315); an
\* exception out of process_date is caught at lines 335-343, which return 1
execute_download_date(result) ==
    /\ script = "download" /\ pc = "execute_download"
    /\ Len(processed) < Len(dates)
    /\ processed' = Append(processed,
                           [date |-> dates[Len(processed) + 1], result |-> result])
    /\ IF result = "True"
       THEN /\ success_count' = success_count + 1
            /\ consecutive_failures' = 0
            /\ pc' = pc
            /\ UNCHANGED <<failed_dates, return_code>>
       ELSE IF result = "False"
       THEN /\ failed_dates' = Append(failed_dates, dates[Len(processed) + 1])
            /\ consecutive_failures' = consecutive_failures + 1
            /\ pc' = IF consecutive_failures + 1 >= 3 THEN "execute_summary" ELSE pc
            /\ UNCHANGED <<success_count, return_code>>
       ELSE /\ pc' = "execute_raised"
            /\ return_code' = Some(1)
            /\ UNCHANGED <<success_count, failed_dates, consecutive_failures>>
    /\ UNCHANGED <<script, dates, converter_vars, retry_vars, date_vars>>

\* the loop has ended, by exhaustion or by break: the summary and
\* "return 0 if not failed_dates else 1" (lines 317-333)
execute_download_summary ==
    /\ script = "download"
    /\ \/ pc = "execute_summary"
       \/ pc = "execute_download" /\ Len(processed) = Len(dates)
    /\ return_code' = Some(IF failed_dates = <<>> THEN 0 ELSE 1)
    /\ pc' = "execute_returned"
    /\ UNCHANGED <<script, dates, processed, success_count, failed_dates,
                   consecutive_failures, converter_vars, retry_vars, date_vars>>

----------------------------------------------------------------------------
(* download.py: process_date, decompress_file, convert_to_ohlcv *)

Markets == {"futures", "spot"}

\* the timeframes lists of lines 679-684 that the model runs with
TimeframeLists == {<<"1m">>, <<"1m", "4h">>}

\* how many times process_date is run for the same date
MaxRuns == 2

\* what the temporary .csv of a market holds: nothing (no file), rows of
\* ticks, a header and no tick, a row that cannot be parsed, or what
\* decompress_file had written when it failed
CsvKinds == {"absent", "ticks", "empty", "malformed", "partial"}

\* the markets the argument market_type stands for, in the order of lines
\* 667-668
MarketsOf(mt) == IF mt = "both" THEN <<"futures", "spot">> ELSE <<mt>>

Required(m) == { <<m, timeframes[k]>> : k \in DOMAIN timeframes }

Call(fn, tf, ok) == [fn |-> fn, market |-> market[1], tf |-> tf, ok |-> ok]

\* how a run of scripts/convert_to_ohlcv.py on a temporary .csv can end: the
\* exit status and whether the output file was written.  Ticks: candles are
\* written (convert_file lines 212-220).  No tick: convert_file returns at
\* lines 185-187 and main exits 0 with nothing written.  A row that cannot be
\* parsed: main's handler exits 1 (lines 279-283).  A file cut short can be
\* any of the three.  A run can also fail for a reason of its own.
ScriptRuns(kind) ==
    LET written == [exit |-> 0, written |-> TRUE]
        nodata  == [exit |-> 0, written |-> FALSE]
        failed  == [exit |-> 1, written |-> FALSE]
    IN  {failed} \cup
        (IF kind = "ticks" THEN {written}
         ELSE IF kind = "empty" THEN {nodata}
         ELSE IF kind = "partial" THEN {written, nodata}
         ELSE {})

\* mutant: the call for spot is made only when the call for futures succeeded
ReturnFromMarket_ShortCircuit(result) ==
    /\ market_results' = Append(market_results, [market |-> market[1], result |-> result])
    /\ IF market_type = "both" /\ market = Some("futures") /\ result
       THEN /\ market' = Some("spot")
            /\ pc' = "date_check"
            /\ date_result' = date_result
       ELSE /\ market' = None
            /\ pc' = "date_returned"
            /\ date_result' = Some(result)

\* a call for one market returns result; under market type BOTH the futures
\* call is followed by the spot call and "return futures_success and
\* spot_success" (lines 666-670)
ReturnFromMarket(result) ==
    /\ market_results' = Append(market_results, [market |-> market[1], result |-> result])
    /\ IF market_type = "both" /\ market = Some("futures")
       THEN /\ market' = Some("spot")
            /\ pc' = "date_check"
            /\ date_result' = date_result
       ELSE /\ market' = None
            /\ pc' = "date_returned"
            /\ date_result' = Some(IF market_type = "both"
                                   THEN market_results[1].result /\ result
                                   ELSE result)

\* process_date is entered (lines 666-667, or 672 for one market)
process_date_call ==
    /\ script = "download" /\ pc = "process_date"
    /\ market' = Some(MarketsOf(market_type)[1])
    /\ pc' = "date_check"
    /\ UNCHANGED <<script, converter_vars, execute_vars, retry_vars, market_type,
                   timeframes, output_files, temp_files, tf_index, success, calls,
                   market_results, date_result, run>>

\* lines 672-699: "Check if all required files exist"
process_date_check ==
    /\ script = "download" /\ pc = "date_check"
    /\ IF Required(market[1]) \subseteq output_files
       THEN ReturnFromMarket(TRUE)
       ELSE /\ pc' = "date_try"
            /\ UNCHANGED <<market, market_results, date_result>>
    /\ UNCHANGED <<script, converter_vars, execute_vars, retry_vars, market_type,
                   timeframes, output_files, temp_files, tf_index, success, calls,
                   run>>

\* symbol_dir.mkdir or temp_dir.mkdir (lines 675, 699) raises: they stand
\* outside the try block, so the exception leaves process_date
process_date_mkdir_raises ==
    /\ script = "download" /\ pc = "date_check"
    /\ pc' = "date_raised"
    /\ UNCHANGED <<script, converter_vars, execute_vars, retry_vars, date_vars>>

\* lines 713-718 and 728-733: "Download only if CSV file doesn't exist"
process_date_csv ==
    /\ script = "download" /\ pc = "date_try"
    /\ IF temp_files[market[1]].csv = "absent"
       THEN /\ pc' = "download_file"
            /\ attempt' = 0
            /\ outcomes' = <<>>
            /\ download_result' = None
            /\ UNCHANGED <<calls, tf_index, success>>
       ELSE /\ pc' = "date_convert"
            /\ calls' = Append(calls, Call("existing_csv", temp_files[market[1]].csv, TRUE))
            /\ tf_index' = 1
            /\ success' = TRUE
            /\ UNCHANGED <<attempt, outcomes, download_result>>
    /\ UNCHANGED <<script, converter_vars, execute_vars, max_retries, market_type,
                   timeframes, market, output_files, temp_files, market_results,
                   date_result, run>>

\* download_file has returned to line 718
process_date_downloaded ==
    /\ script = "download" /\ pc = "returned" /\ market # None
    /\ calls' = Append(calls, Call("download_file", "", download_result[1]))
    /\ IF download_result = Some(FALSE)
       THEN /\ ReturnFromMarket(FALSE)
            /\ UNCHANGED temp_files
       ELSE /\ temp_files' = [temp_files EXCEPT ![market[1]].gz = TRUE]
            /\ pc' = "date_decompress"
            /\ UNCHANGED <<market, market_results, date_result>>
    /\ UNCHANGED <<script, converter_vars, execute_vars, retry_vars, market_type,
                   timeframes, output_files, tf_index, success, run>>

\* lines 722-727: decompress_file(gz_file, csv_file) (lines 592-609) and the
\* unlink of the .gz; left is what the .csv holds afterwards.  decompress_file
\* returns False when an exception is raised: before the .csv was opened
\* (left "absent") or while it was being written (left "partial")
process_date_decompress(left) ==
    /\ script = "download" /\ pc = "date_decompress"
    /\ IF left \in {"ticks", "empty", "malformed"}
       THEN /\ calls' = Append(calls, Call("decompress_file", "", TRUE))
            /\ temp_files' = [temp_files EXCEPT ![market[1]] = [gz |-> FALSE, csv |-> left]]
            /\ pc' = "date_convert"
            /\ tf_index' = 1
            /\ success' = TRUE
            /\ UNCHANGED <<market, market_results, date_result>>
       ELSE /\ calls' = Append(calls, Call("decompress_file", "", FALSE))
            /\ temp_files' = [temp_files EXCEPT ![market[1]].csv = left]
            /\ ReturnFromMarket(FALSE)
            /\ UNCHANGED <<tf_index, success>>
    /\ UNCHANGED <<script, converter_vars, execute_vars, retry_vars, market_type,
                   timeframes, output_files, run>>

\* one iteration of "for tf in timeframes" (lines 733-738), or its end;
\* convert_to_ohlcv (lines 612-656) returns True when the script exits 0
process_date_convert(ran) ==
    /\ script = "download" /\ pc = "date_convert"
    /\ IF tf_index > Len(timeframes)
       THEN /\ pc' = "date_cleanup"
            /\ UNCHANGED <<tf_index, success, calls, output_files>>
       ELSE LET tf == timeframes[tf_index]
            IN  IF <<market[1], tf>> \in output_files
                THEN /\ tf_index' = tf_index + 1
                     /\ UNCHANGED <<pc, success, calls, output_files>>
                ELSE /\ ran \in ScriptRuns(temp_files[market[1]].csv)
                     /\ output_files' = IF ran.written
                                        THEN output_files \cup {<<market[1], tf>>}
                                        ELSE output_files
                     /\ calls' = Append(calls, Call("convert_to_ohlcv", tf, ran.exit = 0))
                     /\ IF ran.exit = 0
                        THEN /\ tf_index' = tf_index + 1
                             /\ UNCHANGED <<pc, success>>
                        ELSE /\ success' = FALSE
                             /\ pc' = "date_cleanup"
                             /\ UNCHANGED tf_index
    /\ UNCHANGED <<script, converter_vars, execute_vars, retry_vars, market_type,
                   timeframes, market, temp_files, market_results, date_result, run>>

\* lines 740-743: "Cleanup temporary CSV file" and "return success"
process_date_cleanup ==
    /\ script = "download" /\ pc = "date_cleanup"
    /\ temp_files' = [temp_files EXCEPT ![market[1]].csv = "absent"]
    /\ ReturnFromMarket(success)
    /\ UNCHANGED <<script, converter_vars, execute_vars, retry_vars, market_type,
                   timeframes, output_files, tf_index, success, calls, run>>

\* lines 745-752: an exception raised inside the try block (by an unlink or
\* an exists, for one)
process_date_except ==
    /\ script = "download"
    /\ pc \in {"date_try", "date_decompress", "date_convert", "date_cleanup"}
    /\ temp_files' = [temp_files EXCEPT ![market[1]] = [gz |-> FALSE, csv |-> "absent"]]
    /\ output_files' = output_files \ Required(market[1])
    /\ ReturnFromMarket(FALSE)
    /\ UNCHANGED <<script, converter_vars, execute_vars, retry_vars, market_type,
                   timeframes, tf_index, success, calls, run>>

\* process_date is called for the same date by a later run of download.py,
\* the files being as the earlier run left them
process_date_again ==
    /\ script = "download" /\ pc = "date_returned"
    /\ run < MaxRuns
    /\ run' = run + 1
    /\ pc' = "process_date"
    /\ calls' = <<>>
    /\ market_results' = <<>>
    /\ date_result' = None
    /\ UNCHANGED <<script, converter_vars, execute_vars, retry_vars, market_type,
                   timeframes, market, output_files, temp_files, tf_index, success>>

----------------------------------------------------------------------------
(* The runs *)

\* convert_to_1sec_ohlcv.py convert_file on entry to "for row in reader": the
\* converter is constructed, the output file is open and its header written
\* (lines 96-111)
InitStream ==
    /\ script = "1sec"
    /\ pc = "reading"
    /\ rows = <<>>
    /\ candles = <<>>
    /\ current_second = None
    /\ ohlcv_buffer = None
    /\ timeframe = "1s"
    /\ ticks_by_interval = <<>>
    /\ min_timestamp = None
    /\ max_timestamp = None
    /\ window = None
    /\ day_start = None
    /\ day_end = None
    /\ exit_code = None
    /\ header_written = TRUE
    /\ NoDownload

\* convert_to_ohlcv.py convert_file after converter =
\* TickToOHLCVConverter(timeframe), line 147.  When the constructor raises, the
\* exception leaves convert_file at once.  (main refuses an unsupported
\* timeframe by itself, through the choices of its argument parser.)
InitGap ==
    /\ script = "ohlcv"
    /\ timeframe \in ModelTimeframes \cup UnsupportedTimeframes
    /\ pc = init_ohlcv(timeframe)
    /\ rows = <<>>
    /\ candles = <<>>
    /\ current_second = None
    /\ ohlcv_buffer = None
    /\ ticks_by_interval = <<>>
    /\ min_timestamp = None
    /\ max_timestamp = None
    /\ window = None
    /\ day_start = None
    /\ day_end = None
    /\ exit_code = None
    /\ header_written = FALSE
    /\ NoDownload

Init == InitStream \/ InitGap

Next ==
    \/ \E row \in Ticks(1) : StreamRow(row)
    \/ StreamEnd
    \/ pc = "reading" /\ \E row \in Ticks(interval_seconds) : GapRow(row)
    \/ GapNoData
    \/ \E tz \in TzOffsets : GapEnd(tz)
    \/ \E w \in CallWindows :
           GapCall(Day0 + w[1] * interval_seconds, Day0 + w[2] * interval_seconds)

Spec == Init /\ [][Next]_vars

\* The gap-filling converter alone, as a class: process_tick in any order,
\* then generate_all_candles over a window of the caller's choice.
InitOrder ==
    /\ script = "ohlcv"
    /\ pc = "reading"
    /\ rows = <<>>
    /\ candles = <<>>
    /\ current_second = None
    /\ ohlcv_buffer = None
    /\ timeframe = "1m"
    /\ ticks_by_interval = <<>>
    /\ min_timestamp = None
    /\ max_timestamp = None
    /\ window = None
    /\ day_start = None
    /\ day_end = None
    /\ exit_code = None
    /\ header_written = FALSE
    /\ NoDownload

NextOrder ==
    \/ \E row \in Ticks(interval_seconds) : GapRow(row)
    \/ \E w \in CallWindows :
           GapCall(Day0 + w[1] * interval_seconds, Day0 + w[2] * interval_seconds)

SpecOrder == InitOrder /\ [][NextOrder]_vars

\* Two input files with ticks at given instants and prices, run through the
\* converter classes: three ticks at 100.2 s, 100.9 s and 161.0 s for the
\* 1-second converter, and ticks in the minutes 0 and 5 for the gap-filling
\* converter at timeframe 1m, followed by generate_all_candles over a window
\* of whole minutes.

\* the timestamp whole.tenths seconds, rounded down to the clock resolution
ScenarioTime(whole, tenths) == whole * Res + (tenths * Res) \div 10

StreamScenario ==
    << [timestamp |-> ScenarioTime(100, 2), price |-> 10, size |-> 1],
       [timestamp |-> ScenarioTime(100, 9), price |-> 12, size |-> 2],
       [timestamp |-> ScenarioTime(161, 0), price |-> 11, size |-> 1] >>

StreamScenarioTicks == { StreamScenario[i] : i \in DOMAIN StreamScenario }

GapScenarioTicks ==
    [timestamp : {ScenarioTime(0, 0), ScenarioTime(59, 9), ScenarioTime(300, 0)},
     price : {10, 12}, size : {1}]

ScenarioWindows == { <<0, 360>>, <<0, 300>>, <<60, 360>>, <<300, 360>> }

NextScenario ==
    \/ \E row \in StreamScenarioTicks : StreamRow(row)
    \/ StreamEnd
    \/ StreamFinalCall
    \/ \E row \in GapScenarioTicks : GapRow(row)
    \/ \E w \in ScenarioWindows : GapCall(w[1], w[2])

SpecScenario == (InitStream \/ InitOrder) /\ [][NextScenario]_vars

\* Either script reading rows whose timestamps are in seconds or in
\* milliseconds.
NextRaw ==
    \/ \E row \in RawTicks : RawStreamRow(row)
    \/ RawStreamEnd
    \/ \E row \in RawTicks : RawGapRow(row)
    \/ GapNoData

SpecRaw == (InitStream \/ InitGap) /\ [][NextRaw]_vars

\* convert_file of either script on input files whose rows may be malformed
\* or lack a column, called any number of times.
NextFiles ==
    \/ \E row \in CsvRows(1) : CsvStreamRow(row)
    \/ StreamEnd
    \/ pc = "reading" /\ \E row \in CsvRows(interval_seconds) : CsvGapRow(row)
    \/ GapNoData
    \/ \E tz \in TzOffsets : GapEnd(tz)
    \/ Rerun

SpecFiles == (InitStream \/ InitGap) /\ [][NextFiles]_vars

\* download_file(url, output_path, max_retries), every attempt ending in one
\* of Outcomes.  Every attempt ends (urlopen is given a timeout, time.sleep
\* returns), so a step that can be taken is taken.
InitDownload ==
    /\ script = "download"
    /\ pc = "download_file"
    /\ max_retries \in 0..MaxRetries
    /\ attempt = 0
    /\ outcomes = <<>>
    /\ download_result = None
    /\ NoExecute
    /\ NoDate
    /\ NoConverter

NextDownload ==
    \/ \E outcome \in Outcomes : download_file_attempt(outcome)
    \/ download_file_retry
    \/ download_file_exhausted

SpecDownload == InitDownload /\ [][NextDownload]_vars /\ WF_vars(NextDownload)

\* execute_download from "dates = list(generate_dates(start_date, end_date))"
\* on (line 288), start_date <= end_date
InitExecute ==
    /\ script = "download"
    /\ pc = "execute_download"
    /\ \E start_date \in 1..2 : \E total_days \in 1..MaxDays :
           dates = generate_dates(start_date, start_date + total_days - 1)
    /\ processed = <<>>
    /\ success_count = 0
    /\ failed_dates = <<>>
    /\ consecutive_failures = 0
    /\ return_code = None
    /\ NoRetry
    /\ NoDate
    /\ NoConverter

NextExecute ==
    \/ \E result \in DateResults : execute_download_date(result)
    \/ execute_download_summary

SpecExecute == InitExecute /\ [][NextExecute]_vars

\* process_date(symbol, date, output_dir, timeframe, market_type, max_retries,
\* custom_timeframes) for one date, in a directory where some of the output
\* files may exist and no temporary file does
InitDate ==
    /\ script = "download"
    /\ pc = "process_date"
    /\ market_type \in Markets \cup {"both"}
    /\ timeframes \in TimeframeLists
    /\ market = None
    /\ output_files \in SUBSET { <<MarketsOf(market_type)[i], timeframes[k]>> :
                                    i \in DOMAIN MarketsOf(market_type),
                                    k \in DOMAIN timeframes }
    /\ temp_files = [m \in Markets |-> [gz |-> FALSE, csv |-> "absent"]]
    /\ tf_index = 1
    /\ success = TRUE
    /\ calls = <<>>
    /\ market_results = <<>>
    /\ date_result = None
    /\ run = 1
    /\ max_retries \in {0, 2}
    /\ attempt = 0
    /\ outcomes = <<>>
    /\ download_result = None
    /\ NoExecute
    /\ NoConverter

NextDate ==
    \/ process_date_call
    \/ process_date_check
    \/ process_date_mkdir_raises
    \/ process_date_csv
    \/ \E outcome \in Outcomes : download_file_attempt(outcome)
    \/ download_file_retry
    \/ download_file_exhausted
    \/ process_date_downloaded
    \/ \E left \in CsvKinds : process_date_decompress(left)
    \/ \E ran \in [exit : {0, 1}, written : BOOLEAN] : process_date_convert(ran)
    \/ process_date_cleanup
    \/ process_date_except
    \/ process_date_again

SpecDate == InitDate /\ [][NextDate]_vars

----------------------------------------------------------------------------
(* Vocabulary of the properties *)

\* the bucket of a row in the 1-second converter
Bucket1s(row) == row.timestamp \div Res

\* the bucket of a row in the gap-filling converter of the run
BucketOf(row) == get_interval(interval_seconds, row.timestamp)

NonDecreasing(seq) ==
    \A i \in 1..(Len(seq) - 1) : seq[i].timestamp <= seq[i + 1].timestamp

RECURSIVE SumTrades(_)
SumTrades(cs) == IF cs = <<>> THEN 0 ELSE Head(cs).trades + SumTrades(Tail(cs))

\* the rows read so far that fall in bucket k, in order of arrival
StreamRowsOf(k) == LET InK(r) == Bucket1s(r) = k IN SelectSeq(rows, InK)
GapRowsOf(k) == LET InK(r) == BucketOf(r) = k IN SelectSeq(rows, InK)

PricesAt(ticks, t) == { ticks[i].price : i \in {j \in DOMAIN ticks : ticks[j].timestamp = t} }
FirstTime(ticks) ==
    CHOOSE t \in {ticks[i].timestamp : i \in DOMAIN ticks} :
        \A i \in DOMAIN ticks : t <= ticks[i].timestamp
LastTime(ticks) ==
    CHOOSE t \in {ticks[i].timestamp : i \in DOMAIN ticks} :
        \A i \in DOMAIN ticks : t >= ticks[i].timestamp

StreamDone == script = "1sec" /\ pc = "done"
\* generate_all_candles has returned, called by convert_file or directly
GapGenerated == script = "ohlcv" /\ pc \in {"done", "called"}

\* the bucket keys of the window passed to generate_all_candles
WindowKeys ==
    { window[1][1] + n * interval_seconds :
        n \in 0..((window[1][2] - window[1][1]) \div interval_seconds) }

IsFlat(c, price) ==
    c.open = price /\ c.high = price /\ c.low = price /\ c.close = price

----------------------------------------------------------------------------
(* C1 *)

\* C1: streaming converter, non-decreasing input: when convert_file has
\* finished, the written candles are in strictly ascending bucket order, their
\* bucket keys are exactly the bucket keys of the rows read, and their trades
\* fields add up to the number of rows.
C1_StreamOneCandlePerBucket ==
    (StreamDone /\ NonDecreasing(rows)) =>
        /\ \A i \in 1..(Len(candles) - 1) :
               candles[i].timestamp < candles[i + 1].timestamp
        /\ {candles[i].timestamp : i \in DOMAIN candles}
               = {Bucket1s(rows[j]) : j \in DOMAIN rows}
        /\ SumTrades(candles) = Len(rows)

C1_Witness ==
    /\ StreamDone /\ NonDecreasing(rows)
    /\ Len(rows) = 3 /\ Len(candles) = 2
    /\ candles[1].trades = 2

----------------------------------------------------------------------------
(* C2 *)

\* C2: streaming converter, non-decreasing input: every written candle carries
\* its bucket B as timestamp, the price of the first and of the last row of B
\* as open and close, the largest and smallest price of B as high and low, the
\* sum of the sizes of B as volume and the number of rows of B as trades.
C2_StreamCandleValues ==
    (StreamDone /\ NonDecreasing(rows)) =>
        \A i \in DOMAIN candles :
            LET c  == candles[i]
                tb == StreamRowsOf(c.timestamp)
            IN  /\ tb # <<>>
                /\ c.open = tb[1].price
                /\ c.close = tb[Len(tb)].price
                /\ c.high = MaxPrice(tb)
                /\ c.low = MinPrice(tb)
                /\ c.volume = SumSize(tb)
                /\ c.trades = Len(tb)

C2_Witness ==
    /\ StreamDone /\ NonDecreasing(rows)
    /\ \E i \in DOMAIN candles :
          /\ candles[i].trades = 3
          /\ candles[i].high > candles[i].open
          /\ candles[i].high > candles[i].close
          /\ candles[i].volume > candles[i].trades

----------------------------------------------------------------------------
(* C3 *)

\* C3: gap-filling converter: generate_all_candles over an aligned window
\* returns one candle for each bucket key of the window, in order, when some
\* buffered tick has its bucket key inside the window, and no candle when none
\* has.
C3_OneCandlePerWindowBucket ==
    GapGenerated =>
        LET w  == window[1]
            iv == interval_seconds
            n  == (w[2] - w[1]) \div iv + 1
        IN  IF \E j \in DOMAIN rows : BucketOf(rows[j]) \in WindowKeys
            THEN /\ Len(candles) = n
                 /\ \A i \in 1..n : candles[i].timestamp = w[1] + (i - 1) * iv
            ELSE candles = <<>>

----------------------------------------------------------------------------
(* C4 *)

\* C4: gap-filling converter: every bucket of the window that has buffered
\* ticks gets a candle whose open is the price of a tick with the smallest
\* timestamp of the bucket, whose close is the price of a tick with the largest
\* timestamp, whose high and low are the largest and smallest price, whose
\* volume is the sum of the sizes and whose trades is the number of ticks, in
\* whatever order the ticks were passed to process_tick.
C4_RealCandleValues ==
    GapGenerated =>
        \A k \in WindowKeys :
            LET tb == GapRowsOf(k)
            IN  tb # <<>> =>
                  /\ Cardinality({i \in DOMAIN candles : candles[i].timestamp = k}) = 1
                  /\ \A i \in DOMAIN candles :
                        candles[i].timestamp = k =>
                          /\ candles[i].open \in PricesAt(tb, FirstTime(tb))
                          /\ candles[i].close \in PricesAt(tb, LastTime(tb))
                          /\ candles[i].high = MaxPrice(tb)
                          /\ candles[i].low = MinPrice(tb)
                          /\ candles[i].volume = SumSize(tb)
                          /\ candles[i].trades = Len(tb)

\* the ticks of one bucket arrived latest first
C4_Witness ==
    /\ GapGenerated
    /\ Len(rows) = 3
    /\ BucketOf(rows[1]) = BucketOf(rows[2])
    /\ rows[1].timestamp > rows[2].timestamp
    /\ rows[1].price # rows[2].price
    /\ \E i \in DOMAIN candles :
          /\ candles[i].timestamp = BucketOf(rows[1])
          /\ candles[i].open = rows[2].price
          /\ candles[i].close = rows[1].price

----------------------------------------------------------------------------
(* C5 *)

\* C5: gap-filling converter: every candle returned for a bucket without
\* buffered ticks has volume 0, trades 0 and open = high = low = close.
C5_FilledCandleIsFlat ==
    GapGenerated =>
        \A i \in DOMAIN candles :
            GapRowsOf(candles[i].timestamp) = <<>> =>
                /\ candles[i].volume = 0
                /\ candles[i].trades = 0
                /\ IsFlat(candles[i], candles[i].open)

C5_Witness ==
    /\ GapGenerated
    /\ \E i, j \in DOMAIN candles :
          /\ GapRowsOf(candles[i].timestamp) = <<>>
          /\ GapRowsOf(candles[j].timestamp) # <<>>
          /\ candles[j].volume > 0

----------------------------------------------------------------------------
(* C6 *)

\* C6: gap-filling converter: a bucket of the window without ticks gets a flat
\* candle at the close of the nearest real candle before it in the window;
\* when no real candle precedes it and some tick falls in the window, it gets
\* a flat candle at the price of the earliest tick of the earliest bucket with
\* ticks at or after the window start; it is skipped only when no tick falls
\* in the window.
C6_FillPrice ==
    GapGenerated =>
        \A k \in WindowKeys :
            GapRowsOf(k) = <<>> =>
                LET before == {j \in WindowKeys : j < k /\ GapRowsOf(j) # <<>>}
                    later  == {j \in WindowKeys : j > k /\ GapRowsOf(j) # <<>>}
                IN  IF before # {}
                    THEN LET j == CHOOSE x \in before : \A y \in before : y <= x
                         IN  \E a, b \in DOMAIN candles :
                                /\ candles[a].timestamp = k
                                /\ candles[b].timestamp = j
                                /\ IsFlat(candles[a], candles[b].close)
                    ELSE later # {} =>
                         LET j  == SetMin(later)
                             tb == GapRowsOf(j)
                         IN  \E a \in DOMAIN candles :
                                /\ candles[a].timestamp = k
                                /\ candles[a].open \in PricesAt(tb, FirstTime(tb))
                                /\ IsFlat(candles[a], candles[a].open)

----------------------------------------------------------------------------
(* C7 *)

RealBounds(c) ==
    /\ c.low <= Min(c.open, c.close)
    /\ c.high >= Max(c.open, c.close)

\* C7: every real candle has low <= min(open, close) and high >= max(open,
\* close): in the 1-second converter every candle written and the candle
\* get_final_candle would return, after any sequence of process_tick calls; in
\* the gap-filling converter every returned candle of a bucket with ticks, for
\* ticks passed in any order.
C7_RealCandleBounds ==
    /\ script = "1sec" =>
          /\ \A i \in DOMAIN candles : RealBounds(candles[i])
          /\ LET final == get_final_candle(current_second, ohlcv_buffer)
             IN  final # None => RealBounds(final[1])
    /\ GapGenerated =>
          \A i \in DOMAIN candles :
              GapRowsOf(candles[i].timestamp) # <<>> => RealBounds(candles[i])

\* a real candle of the gap-filling converter that closes above its open, from
\* ticks that arrived latest first
C7_Witness ==
    /\ GapGenerated
    /\ ~NonDecreasing(rows)
    /\ \E i \in DOMAIN candles :
          /\ candles[i].trades = 3
          /\ candles[i].close > candles[i].open
          /\ candles[i].low < candles[i].close

----------------------------------------------------------------------------
(* C8 *)

RECURSIVE IngestAll(_, _, _)
\* process_tick applied to each tick of seq in turn
IngestAll(tbi, iv, seq) ==
    IF seq = <<>> THEN tbi
    ELSE IngestAll(process_tick_ohlcv(tbi, iv, Head(seq)), iv, Tail(seq))

\* the candles of the same window for the rows passed in the order p
CandlesOfOrder(p) ==
    generate_all_candles(
        IngestAll(<<>>, interval_seconds, [i \in DOMAIN rows |-> rows[p[i]]]),
        interval_seconds, window[1][1], window[1][2])

\* the order p keeps the rows with equal timestamps in their order of arrival
KeepsTies(p) ==
    \A i, j \in DOMAIN rows :
        (i < j /\ rows[p[i]].timestamp = rows[p[j]].timestamp) => p[i] < p[j]

\* C8 as stated: every order of arrival of the same ticks gives the same
\* candles over the same window.
C8_AnyOrderSameCandles ==
    GapGenerated =>
        \A p \in Permutations(DOMAIN rows) : CandlesOfOrder(p) = candles

\* C8 as amended: every order of arrival of the same ticks that keeps the
\* ticks with equal timestamps in the same relative order gives the same
\* candles over the same window.
C8_TieKeepingOrderSameCandles ==
    GapGenerated =>
        \A p \in Permutations(DOMAIN rows) :
            KeepsTies(p) => CandlesOfOrder(p) = candles

\* three ticks of one bucket with different timestamps and prices, latest first
C8_Witness ==
    /\ GapGenerated
    /\ Len(rows) = 3
    /\ rows[1].timestamp > rows[3].timestamp
    /\ rows[1].price # rows[3].price
    /\ BucketOf(rows[1]) = BucketOf(rows[3])
    /\ \E i \in DOMAIN candles :
          candles[i].timestamp = BucketOf(rows[1]) /\ candles[i].trades >= 2
    /\ \E p \in Permutations(DOMAIN rows) : KeepsTies(p) /\ p[1] # 1

----------------------------------------------------------------------------
(* C9 *)

\* a step of the 1-second converter that reads a row of a second earlier than
\* the open one, for which a candle was already written
LateRowStep ==
    /\ script = "1sec" /\ pc = "reading"
    /\ Len(rows') = Len(rows) + 1
    /\ current_second # None
    /\ Bucket1s(rows'[Len(rows')]) < current_second[1]
    /\ \E i \in DOMAIN candles :
          candles[i].timestamp = Bucket1s(rows'[Len(rows')])

\* C9 as stated: such a row is merged into the open second: the call returns
\* no candle and the open second stays.
C9_LateRowMerged ==
    [][LateRowStep => (candles' = candles /\ current_second' = current_second)]_vars

\* C9 as amended: such a row closes the open second: the call returns the
\* candle of the open second, and the earlier second is opened again with a
\* buffer holding the row alone.
C9_LateRowReopens ==
    [][LateRowStep =>
         LET row == rows'[Len(rows')]
         IN  /\ candles' = Append(candles, BufferCandle(current_second, ohlcv_buffer[1]))
             /\ current_second' = Some(Bucket1s(row))
             /\ ohlcv_buffer' = Some([open |-> Some(row.price), high |-> row.price,
                                      low |-> row.price, close |-> Some(row.price),
                                      volume |-> row.size, trades |-> 1])]_vars

\* the third row is of the second whose candle was written first
C9_Witness ==
    /\ script = "1sec"
    /\ Len(rows) = 3 /\ Len(candles) >= 2
    /\ candles[1].timestamp = Bucket1s(rows[3])
    /\ candles[2].timestamp > Bucket1s(rows[3])
    /\ current_second = Some(Bucket1s(rows[3]))

----------------------------------------------------------------------------
(* C10 *)

SingleTickCandle(key, tick) ==
    [timestamp |-> key, open |-> tick.price, high |-> tick.price,
     low |-> tick.price, close |-> tick.price, volume |-> tick.size,
     trades |-> 1]

\* C10 as stated: in both scripts an input of one tick at T gives exactly one
\* candle, at floor(T/interval)*interval, with open = high = low = close =
\* price, volume = size and trades = 1.
C10_SingleTickOneCandle ==
    (pc = "done" /\ Len(rows) = 1) =>
        candles = << SingleTickCandle(
                        IF script = "1sec" THEN rows[1].timestamp \div Res
                        ELSE (rows[1].timestamp \div (Res * interval_seconds))
                                 * interval_seconds,
                        rows[1]) >>

\* C10 as amended: the 1-second script writes exactly that one candle, at
\* floor(T); the gap-filling script writes one candle for every bucket of the
\* session window, of which the one at floor(T/interval)*interval is that
\* candle and every other is flat at the tick's price with volume 0 and
\* trades 0.
C10_SingleTickCandles ==
    (pc = "done" /\ Len(rows) = 1) =>
        IF script = "1sec"
        THEN candles = << SingleTickCandle(rows[1].timestamp \div Res, rows[1]) >>
        ELSE LET iv  == interval_seconds
                 w   == window[1]
                 key == (rows[1].timestamp \div (Res * iv)) * iv
             IN  /\ Len(candles) = (w[2] - w[1]) \div iv + 1
                 /\ \E i \in DOMAIN candles : candles[i].timestamp = key
                 /\ \A i \in DOMAIN candles :
                       /\ candles[i].timestamp = w[1] + (i - 1) * iv
                       /\ candles[i] =
                            IF candles[i].timestamp = key
                            THEN SingleTickCandle(key, rows[1])
                            ELSE [timestamp |-> candles[i].timestamp,
                                  open |-> rows[1].price, high |-> rows[1].price,
                                  low |-> rows[1].price, close |-> rows[1].price,
                                  volume |-> 0, trades |-> 0]

\* one tick, and the gap-filling script wrote filled candles before and after
\* the candle of the tick
C10_Witness ==
    /\ script = "ohlcv" /\ pc = "done" /\ Len(rows) = 1
    /\ Len(candles) >= 3
    /\ candles[1].trades = 0
    /\ candles[Len(candles)].trades = 0
    /\ \E i \in DOMAIN candles : candles[i].trades = 1

----------------------------------------------------------------------------
(* C11 *)

\* the candle of the first two ticks of StreamScenario, at bucket key
Scenario_FirstCandle(key) ==
    [timestamp |-> key, open |-> 10, high |-> 12, low |-> 10, close |-> 12,
     volume |-> 3, trades |-> 2]

\* the candle of the third tick of StreamScenario, at bucket key
Scenario_LastCandle(key) ==
    [timestamp |-> key, open |-> 11, high |-> 11, low |-> 11, close |-> 11,
     volume |-> 1, trades |-> 1]

\* C11: streaming converter, on the ticks (100.2, 10, 1), (100.9, 12, 2),
\* (161.0, 11, 1): the candle of the first two ticks is written with bucket
\* key 60 when the third tick is processed, and the candle of the third tick
\* with bucket key 120 at the end of the stream.
C11_StreamBucketsByMinute ==
    (script = "1sec" /\ rows = StreamScenario) =>
        /\ pc = "reading" => candles = << Scenario_FirstCandle(60) >>
        /\ pc = "done" =>
              candles = << Scenario_FirstCandle(60), Scenario_LastCandle(120) >>

\* C11 as amended: the streaming converter has no timeframe and buckets by the
\* whole second: on the same ticks the candle of the first two is written with
\* bucket key 100 when the third tick is processed, and the candle of the
\* third tick with bucket key 161 at the end of the stream.
C11_StreamBucketsBySecond ==
    (script = "1sec" /\ rows = StreamScenario) =>
        /\ pc = "reading" => candles = << Scenario_FirstCandle(100) >>
        /\ pc = "done" =>
              candles = << Scenario_FirstCandle(100), Scenario_LastCandle(161) >>

C11_Witness ==
    /\ script = "1sec" /\ rows = StreamScenario /\ pc = "done"
    /\ Len(candles) = 2

----------------------------------------------------------------------------
(* C12 *)

\* C12: gap-filling converter, timeframe 1m, generate_all_candles called over
\* an aligned window [start, end] whose first bucket holds a tick: the list
\* returned has (end - start) / 60 + 1 candles, one for every bucket key from
\* start to end inclusive.  With ticks in the buckets 0 and 300 only and the
\* window [0, 360] these are 7 candles: the candle of the ticks of bucket 0,
\* candles filled with its close at 60, 120, 180 and 240, the candle of the
\* ticks of bucket 300, and a candle filled with that one's close at 360.
C12_WalkInclusive ==
    (script = "ohlcv" /\ pc = "called" /\ window[1][1] \in DOMAIN ticks_by_interval) =>
        LET w  == window[1]
            iv == interval_seconds
        IN  /\ Len(candles) = (w[2] - w[1]) \div iv + 1
            /\ \A i \in DOMAIN candles : candles[i].timestamp = w[1] + (i - 1) * iv
            /\ candles[Len(candles)].timestamp = w[2]
            /\ (w = <<0, 360>> /\ DOMAIN ticks_by_interval = {0, 300}) =>
                  /\ Len(candles) = 7
                  /\ candles[1].trades = Len(GapRowsOf(0))
                  /\ candles[1].volume = SumSize(GapRowsOf(0))
                  /\ \A i \in 2..5 :
                        candles[i] = FillCandle(60 * (i - 1), candles[1].close)
                  /\ candles[6].trades = Len(GapRowsOf(300))
                  /\ candles[6].volume = SumSize(GapRowsOf(300))
                  /\ candles[7] = FillCandle(360, candles[6].close)

\* ticks in the buckets 0 and 300, two of them in bucket 0 with the later one
\* read first, and the window [0, 360]
C12_Witness ==
    /\ script = "ohlcv" /\ pc = "called"
    /\ window = Some(<<0, 360>>)
    /\ DOMAIN ticks_by_interval = {0, 300}
    /\ Len(rows) = 3 /\ Len(candles) = 7
    /\ rows[1].timestamp > rows[2].timestamp
    /\ candles[1].close # candles[6].close
    /\ candles[2].trades = 0 /\ candles[7].trades = 0

----------------------------------------------------------------------------
(* C13 *)

\* the row read last and the tick the gap-filling converter stored for it
LastRow == rows[Len(rows)]
LastStored(key) == ticks_by_interval[key][Len(ticks_by_interval[key])]

\* C13: gap-filling converter: after process_tick(row), the tick stored for
\* the row carries the row's timestamp divided by 1000 when that timestamp is
\* strictly greater than 1e10 and the row's timestamp itself otherwise, and it
\* is stored under the bucket key of the timestamp it carries.  1700000000000
\* is stored as 1700000000, 1700000000 as 1700000000, and 1e10 as 1e10.
C13_TimestampNormalized ==
    (script = "ohlcv" /\ pc = "reading" /\ rows # <<>>) =>
        LET raw      == LastRow.timestamp
            expected == IF Exceeds1e10(raw) THEN DivThousand(raw) ELSE raw
            key      == get_interval_wide(interval_seconds, expected)
        IN  /\ key \in DOMAIN ticks_by_interval
            /\ LastStored(key) = [timestamp |-> expected, price |-> LastRow.price,
                                  size |-> LastRow.size]
            /\ raw = Wide(1700000000, 0) => expected = Wide(1700000, 0)
            /\ raw = Wide(1700000, 0) => expected = Wide(1700000, 0)
            /\ raw = Wide(10000000, 0) => expected = Wide(10000000, 0)
            /\ \A k \in DOMAIN ticks_by_interval :
                  \A i \in DOMAIN ticks_by_interval[k] :
                      ~Exceeds1e10(ticks_by_interval[k][i].timestamp)

\* a row stamped 1700000000000 and a row stamped 1700000000 were read, and
\* their ticks lie in one bucket
C13_Witness ==
    /\ script = "ohlcv" /\ pc = "reading" /\ Len(rows) = 2
    /\ rows[1].timestamp = Wide(1700000000, 0)
    /\ rows[2].timestamp = Wide(1700000, 0)
    /\ \E k \in DOMAIN ticks_by_interval :
          /\ Len(ticks_by_interval[k]) = 2
          /\ ticks_by_interval[k][1].timestamp = ticks_by_interval[k][2].timestamp

----------------------------------------------------------------------------
(* C14 *)

\* C14: the three places that read a timestamp agree: for the row read last,
\* the gap-filling script tracks as minimum and maximum the timestamp its
\* process_tick stores, and the streaming script opens the second that the
\* gap-filling converter at timeframe 1s takes as bucket key.
C14_SameSecondsEverywhere ==
    (pc = "reading" /\ rows # <<>>) =>
        LET raw == LastRow.timestamp
            key == get_interval_wide(1, process_tick_timestamp(raw))
        IN  IF script = "ohlcv"
            THEN /\ convert_file_timestamp(raw) = process_tick_timestamp(raw)
                 /\ ~WideLess(convert_file_timestamp(raw), min_timestamp[1])
                 /\ ~WideLess(max_timestamp[1], convert_file_timestamp(raw))
            ELSE current_second = Some(key)

----------------------------------------------------------------------------
(* C15 *)

\* C15: gap-filling converter: at every moment every key of ticks_by_interval
\* is a multiple of interval_seconds, every tick stored under a key k has
\* k <= timestamp < k + interval_seconds, the key of every row read is
\* floor(timestamp / interval_seconds) * interval_seconds, and the candles of
\* one conversion have pairwise different timestamps.
C15_BucketKeys ==
    (script = "ohlcv" /\ timeframe \in DOMAIN TIMEFRAMES) =>
        LET iv == interval_seconds
        IN  /\ \A k \in DOMAIN ticks_by_interval :
                  /\ k % iv = 0
                  /\ \A i \in DOMAIN ticks_by_interval[k] :
                        LET t == ticks_by_interval[k][i].timestamp
                        IN  k * Res <= t /\ t < (k + iv) * Res
            /\ \A j \in DOMAIN rows :
                  LET t == rows[j].timestamp
                      k == (t \div (Res * iv)) * iv
                  IN  /\ get_interval(iv, t) = k
                      /\ k \in DOMAIN ticks_by_interval
                      /\ \E i \in DOMAIN ticks_by_interval[k] :
                            ticks_by_interval[k][i].timestamp = t
            /\ \A i, j \in DOMAIN candles :
                  i # j => candles[i].timestamp # candles[j].timestamp

\* convert_file has written candles, and a tick at the last instant of its
\* bucket and a tick at the first instant of a later bucket were stored
C15_Witness ==
    /\ script = "ohlcv" /\ pc = "done"
    /\ Len(candles) >= 2
    /\ Cardinality(DOMAIN ticks_by_interval) = 2
    /\ \E k \in DOMAIN ticks_by_interval :
          \E i \in DOMAIN ticks_by_interval[k] :
              ticks_by_interval[k][i].timestamp = (k + interval_seconds) * Res - 1

----------------------------------------------------------------------------
(* C16 *)

\* C16: gap-filling script: when convert_file has written its candles,
\* day_start is 09:00 local time, day_end is day_start + 24 h - 1 s, the
\* earliest tick lies between them, and every candle written has its
\* timestamp between day_start and day_end, whatever ticks lie after day_end.
C16_CandlesInsideSession ==
    (script = "ohlcv" /\ pc = "done") =>
        /\ day_end[1] = day_start[1] + 24 * 3600 - 1
        /\ \E tz \in TzOffsets : (day_start[1] + tz) % 86400 = 9 * 3600
        /\ day_start[1] <= min_timestamp[1] \div Res
        /\ min_timestamp[1] \div Res <= day_end[1]
        /\ \A i \in DOMAIN candles :
              /\ day_start[1] <= candles[i].timestamp
              /\ candles[i].timestamp <= day_end[1]

----------------------------------------------------------------------------
(* C17 *)

\* C17: gap-filling script: when convert_file has written its candles, their
\* number is 86400 / interval_seconds.
C17_CandlesPerDay ==
    (script = "ohlcv" /\ pc = "done") =>
        Len(candles) = 86400 \div interval_seconds

----------------------------------------------------------------------------
(* C18 *)

\* C18: gap-filling script: a conversion asked for a timeframe that is not a
\* key of TIMEFRAMES fails in the constructor and stays failed: no row is ever
\* read, nothing is stored in ticks_by_interval, no window is computed, no
\* candle is produced and the output file is never opened; and a conversion
\* asked for a supported timeframe does not fail in the constructor.
C18_UnsupportedTimeframeFails ==
    script = "ohlcv" =>
        IF timeframe \in DOMAIN TIMEFRAMES
        THEN pc # "invalid_timeframe"
        ELSE /\ pc = "invalid_timeframe"
             /\ rows = <<>>
             /\ ticks_by_interval = <<>>
             /\ min_timestamp = None /\ max_timestamp = None
             /\ window = None
             /\ candles = <<>>
             /\ ~header_written
             /\ exit_code # Some(0)

C18_Witness ==
    /\ script = "ohlcv"
    /\ timeframe = "2h"
    /\ pc = "invalid_timeframe"

----------------------------------------------------------------------------
(* C19 *)

\* C19: gap-filling script: when convert_file has found no row in its input,
\* the script ends with a status other than 0, no candle was produced and the
\* output file was not opened.
C19_EmptyInputFails ==
    (script = "ohlcv" /\ pc = "nodata") =>
        /\ exit_code # None /\ exit_code # Some(0)
        /\ candles = <<>>
        /\ ~header_written

----------------------------------------------------------------------------
(* C20 *)

\* C20: streaming script: as long as no row was read no second is open and the
\* buffer is unset; when convert_file ends without having read a row,
\* get_final_candle returns None, no candle row was written after the header,
\* and the script ends with status 0.
C20_StreamEmptyInput ==
    (script = "1sec" /\ rows = <<>>) =>
        /\ current_second = None
        /\ ohlcv_buffer = None
        /\ get_final_candle(current_second, ohlcv_buffer) = None
        /\ header_written
        /\ candles = <<>>
        /\ pc \in {"reading", "done"}
        /\ pc = "done" => exit_code = Some(0)

C20_Witness ==
    /\ script = "1sec" /\ pc = "done"
    /\ rows = <<>> /\ candles = <<>>
    /\ exit_code = Some(0)

----------------------------------------------------------------------------
(* C21 *)

\* a step of convert_file that reads the row
ReadsRow(row) ==
    \/ script = "1sec" /\ CsvStreamRow(row)
    \/ script = "ohlcv" /\ CsvGapRow(row)

\* the conversion is aborted by the step: the script ends with status 1 and
\* rows read, ticks stored and candles are as before
AbortedByStep ==
    /\ pc' = "error" /\ exit_code' = Some(1)
    /\ rows' = rows /\ candles' = candles
    /\ ticks_by_interval' = ticks_by_interval
    /\ current_second' = current_second /\ ohlcv_buffer' = ohlcv_buffer

\* after an abort nothing happens in the run: the only step is a new call of
\* convert_file
NothingAfterAbort ==
    pc = "error" => (pc' = "reading" /\ rows' = <<>> /\ candles' = <<>>)

\* the quantity field of the row is missing or float() refuses it: the size
\* column if the file has one, the volume column otherwise
QuantityMalformed(row) ==
    ~Readable(IF row.size.kind # "nocolumn" THEN row.size ELSE row.volume)

\* C21: in both scripts a row whose timestamp, price or size/volume field is
\* missing or unparseable aborts the conversion, and neither that row nor a
\* later one contributes to a candle.
C21_MalformedRowAborts ==
    [][/\ \A row \in CsvRows(1) \cup CsvRows(14400) \cup CsvRows(86400) :
              ( /\ ReadsRow(row)
                /\ \/ ~Readable(row.timestamp)
                   \/ ~Readable(row.price)
                   \/ QuantityMalformed(row) ) => AbortedByStep
       /\ NothingAfterAbort]_vars

\* C21 as amended: a row whose timestamp or price is missing or unparseable
\* aborts the conversion in both scripts; so does, in the streaming script, a
\* row whose size is missing or unparseable, and, in the gap-filling script, a
\* row whose size (or, without size column, volume) is unparseable.  A row
\* without size and without volume column does not abort the gap-filling
\* script: it is read with quantity 0.  Every other row is read, and after an
\* abort neither that row nor a later one contributes to a candle.
C21_MalformedRowAbortsOrZero ==
    [][/\ \A row \in CsvRows(1) \cup CsvRows(14400) \cup CsvRows(86400) :
              ReadsRow(row) =>
                  LET bad == \/ ~Readable(row.timestamp)
                             \/ ~Readable(row.price)
                             \/ IF script = "1sec" THEN ~Readable(row.size)
                                ELSE row.size.kind = "text"
                                     \/ (row.size.kind = "nocolumn"
                                         /\ row.volume.kind = "text")
                  IN  IF bad THEN AbortedByStep
                      ELSE /\ pc' = "reading"
                           /\ Len(rows') = Len(rows) + 1
                           /\ rows'[Len(rows')].timestamp = row.timestamp.val
                           /\ rows'[Len(rows')].price = row.price.val
                           /\ (script = "ohlcv" /\ row.size.kind = "nocolumn"
                               /\ row.volume.kind = "nocolumn")
                                  => rows'[Len(rows')].size = 0
       /\ NothingAfterAbort]_vars

\* the gap-filling script has read a row without size and volume column with
\* quantity 0, and was then aborted by a malformed row
C21_Witness ==
    /\ script = "ohlcv" /\ pc = "error" /\ exit_code = Some(1)
    /\ Len(rows) = 2
    /\ rows[1].size = 0
    /\ candles = <<>> /\ ~header_written

----------------------------------------------------------------------------
(* C22 *)

\* C22: in both scripts a row with readable timestamp and price is read as a
\* tick whose quantity is the value of the size column when the file has one,
\* and the value of the volume column when it has a volume column only.
C22_QuantityFromSizeOrVolume ==
    [][\A row \in CsvRows(1) \cup CsvRows(14400) \cup CsvRows(86400) :
           ( /\ ReadsRow(row)
             /\ Readable(row.timestamp) /\ Readable(row.price)
             /\ \/ Readable(row.size)
                \/ row.size.kind = "nocolumn" /\ Readable(row.volume) ) =>
               /\ Len(rows') = Len(rows) + 1
               /\ rows'[Len(rows')].size =
                      IF Readable(row.size) THEN row.size.val ELSE row.volume.val]_vars

----------------------------------------------------------------------------
(* C23 *)

\* a converter of the 1-second script constructed afresh and fed the ticks of
\* seq one by one: its fields and the rows written
RECURSIVE FreshStream(_)
FreshStream(seq) ==
    IF seq = <<>>
    THEN [current_second |-> None, ohlcv_buffer |-> None, out |-> <<>>]
    ELSE LET before == FreshStream(SubSeq(seq, 1, Len(seq) - 1))
             r      == process_tick_1sec(before.current_second, before.ohlcv_buffer,
                                         seq[Len(seq)])
         IN  [current_second |-> r.current_second, ohlcv_buffer |-> r.ohlcv_buffer,
              out |-> WriteRow(before.out, r.result)]

\* C23: the state of a conversion is a function of the timeframe, of the
\* ticks it has read and, for the session window, of the local time zone: the
\* fields of the converter are those of a converter constructed afresh and
\* fed the same ticks, and the candles written are those such a converter
\* gives, however many conversions ran before in the same process.
C23_SameInputSameCandles ==
    (pc \in {"reading", "done"}) =>
        IF script = "1sec"
        THEN LET fresh == FreshStream(rows)
             IN  /\ current_second = fresh.current_second
                 /\ ohlcv_buffer = fresh.ohlcv_buffer
                 /\ pc = "reading" => candles = fresh.out
                 /\ pc = "done" =>
                       candles = WriteRow(fresh.out,
                                          get_final_candle(fresh.current_second,
                                                           fresh.ohlcv_buffer))
        ELSE LET iv    == interval_seconds
                 fresh == IngestAll(<<>>, iv, rows)
             IN  /\ ticks_by_interval = fresh
                 /\ pc = "reading" => candles = <<>>
                 /\ pc = "done" =>
                       \E tz \in TzOffsets :
                           LET first == SetMin({rows[i].timestamp : i \in DOMAIN rows})
                               w     == SessionWindow(iv, first, tz)
                           IN  /\ day_start = Some(SessionDay(first, tz)[1])
                               /\ window = Some(w)
                               /\ candles = generate_all_candles(fresh, iv, w[1], w[2])

\* a conversion of three ticks has written its candles
C23_Witness ==
    /\ pc = "done" /\ exit_code = Some(0)
    /\ Len(rows) = 3
    /\ Len(candles) >= 2
    /\ header_written

----------------------------------------------------------------------------
(* C24 *)

\* C24: gap-filling converter: the timestamps of the candles returned by
\* generate_all_candles over an aligned window are strictly ascending and two
\* consecutive ones differ by interval_seconds exactly; the last one is the
\* end of the window.
C24_AscendingContiguous ==
    GapGenerated =>
        /\ \A i \in 1..(Len(candles) - 1) :
              /\ candles[i].timestamp < candles[i + 1].timestamp
              /\ candles[i + 1].timestamp - candles[i].timestamp = interval_seconds
        /\ candles # <<>> => candles[Len(candles)].timestamp = window[1][2]

\* candles of ticks with a filled candle between them
C24_Witness ==
    /\ GapGenerated
    /\ \E i \in 1..(Len(candles) - 2) :
          /\ candles[i].trades > 0
          /\ candles[i + 1].trades = 0
          /\ candles[i + 2].trades > 0

----------------------------------------------------------------------------
(* C25 *)

\* a step of the 1-second script in which process_tick is called
ProcessTickStep ==
    /\ script = "1sec" /\ pc = "reading"
    /\ Len(rows') = Len(rows) + 1

\* C25: streaming converter, at every process_tick call: a candle is returned
\* if and only if a second is open and the tick's second differs from it; the
\* candle carries the open second as timestamp and the values accumulated in
\* the buffer; after the call the open second is the tick's second; its buffer
\* holds the tick alone (open = high = low = close = price, volume = size,
\* trades = 1) when the second was newly opened, and the tick added to what it
\* held otherwise.
C25_StreamingStep ==
    [][ProcessTickStep =>
         LET row   == rows'[Len(rows')]
             b     == Bucket1s(row)
             other == current_second # None /\ current_second[1] # b
             fresh == current_second = None \/ other
         IN  /\ (candles' # candles) <=> other
             /\ other => candles' = Append(candles,
                            [timestamp |-> current_second[1],
                             open      |-> ohlcv_buffer[1].open[1],
                             high      |-> ohlcv_buffer[1].high,
                             low       |-> ohlcv_buffer[1].low,
                             close     |-> ohlcv_buffer[1].close[1],
                             volume    |-> ohlcv_buffer[1].volume,
                             trades    |-> ohlcv_buffer[1].trades])
             /\ current_second' = Some(b)
             /\ fresh => ohlcv_buffer' =
                    Some([open |-> Some(row.price), high |-> row.price,
                          low |-> row.price, close |-> Some(row.price),
                          volume |-> row.size, trades |-> 1])
             /\ ~fresh => ohlcv_buffer' =
                    Some([open   |-> ohlcv_buffer[1].open,
                          high   |-> Max(ohlcv_buffer[1].high, row.price),
                          low    |-> Min(ohlcv_buffer[1].low, row.price),
                          close  |-> Some(row.price),
                          volume |-> ohlcv_buffer[1].volume + row.size,
                          trades |-> ohlcv_buffer[1].trades + 1])]_vars

\* three calls: the first opened a second, the second added to it, the third
\* closed it and opened another
C25_Witness ==
    /\ script = "1sec" /\ pc = "reading"
    /\ Len(rows) = 3 /\ Len(candles) = 1
    /\ candles[1].trades = 2
    /\ ohlcv_buffer[1].trades = 1
    /\ current_second = Some(Bucket1s(rows[3]))

----------------------------------------------------------------------------
(* C26 *)

\* C26: streaming converter: after any process_tick calls and one or more
\* get_final_candle calls, the candles returned are those the process_tick
\* calls returned followed by the candle of the second left open, once.
C26_FinalCandleOnce ==
    (script = "1sec" /\ pc \in {"done", "called", "called_again"} /\ rows # <<>>) =>
        candles = Append(FreshStream(rows).out,
                         BufferCandle(current_second, ohlcv_buffer[1]))

----------------------------------------------------------------------------
(* C27 *)

\* the prices of the rows read so far that fall in second k
RealPrices(k) == { rows[i].price : i \in {j \in DOMAIN rows : Bucket1s(rows[j]) = k} }

\* C27: streaming converter, rows in any order: the buffer of the open second
\* holds at least one tick, and every candle written has trades >= 1, open and
\* close set, and high and low that are prices of ticks of its second, never
\* the -inf/+inf the buffer is reset to.
C27_NoEmptyBucket ==
    script = "1sec" =>
        /\ current_second # None =>
              LET b == ohlcv_buffer[1] IN
              /\ b.trades >= 1
              /\ b.open # None /\ b.close # None
              /\ {b.open[1], b.close[1], b.high, b.low} \subseteq RealPrices(current_second[1])
        /\ \A i \in DOMAIN candles :
              LET c == candles[i] IN
              /\ c.trades >= 1
              /\ {c.open, c.close, c.high, c.low} \subseteq RealPrices(c.timestamp)
              /\ c.high # NegInf /\ c.low # PosInf

\* a run whose rows went back in time, ended with two candles or more
C27_Witness ==
    /\ StreamDone /\ Len(candles) >= 2
    /\ \E i \in 1..(Len(rows) - 1) : Bucket1s(rows[i]) > Bucket1s(rows[i + 1])

----------------------------------------------------------------------------
(* C28 *)

\* C28: gap-filling convert_file on a file with rows: day_start is not after
\* the earliest tick and the bucket of the earliest tick is not after the
\* bucket of day_end, the first candle written is the one of day_start's
\* bucket, and (get_interval(day_end) - get_interval(day_start)) /
\* interval_seconds + 1 candles are written.
C28_WindowHoldsEarliest ==
    (script = "ohlcv" /\ pc = "done") =>
        LET earliest       == FirstTime(rows)
            start_interval == get_interval(interval_seconds, day_start[1] * Res)
            end_interval   == get_interval(interval_seconds, day_end[1] * Res)
        IN  /\ day_start[1] * Res <= earliest
            /\ get_interval(interval_seconds, earliest) <= end_interval
            /\ start_interval <= get_interval(interval_seconds, earliest)
            /\ candles[1].timestamp = start_interval
            /\ Len(candles) = (end_interval - start_interval) \div interval_seconds + 1

\* a finished run whose earliest tick lies in a later bucket than day_start
C28_Witness ==
    /\ script = "ohlcv" /\ pc = "done"
    /\ get_interval(interval_seconds, FirstTime(rows)) >
           get_interval(interval_seconds, day_start[1] * Res)
    /\ Len(candles) >= 2

----------------------------------------------------------------------------
(* C29 *)

RECURSIVE SumVolume(_)
SumVolume(cs) == IF cs = <<>> THEN 0 ELSE Head(cs).volume + SumVolume(Tail(cs))

\* the rows read whose bucket lies in the window of the call
RowsInWindow ==
    LET InW(r) == window[1][1] <= BucketOf(r) /\ BucketOf(r) <= window[1][2]
    IN  SelectSeq(rows, InW)

----------------------------------------------------------------------------
(* C30 *)

AllRetryable(seq) == \A i \in DOMAIN seq : seq[i] \in Retryable

\* what holds of download_file at every moment: no more than max_retries
\* attempts; no attempt after one that succeeded or raised something else than
\* URLError/HTTPError; once returned, True exactly when the last attempt
\* succeeded, and False only after max_retries URL/HTTP errors in a row (none
\* when max_retries is 0) or after another exception
RetryProtocol ==
    script = "download" =>
        /\ Len(outcomes) <= max_retries
        /\ \A i \in 1..(Len(outcomes) - 1) : outcomes[i] \in Retryable
        /\ pc # "returned" =>
              /\ download_result = None
              /\ AllRetryable(outcomes)
              /\ Len(outcomes) < max_retries \/ max_retries = 0
        /\ pc = "returned" =>
              /\ download_result \in {Some(TRUE), Some(FALSE)}
              /\ download_result = Some(TRUE) <=>
                    (outcomes # <<>> /\ outcomes[Len(outcomes)] = "ok")
              /\ download_result = Some(FALSE) <=>
                    \/ AllRetryable(outcomes) /\ Len(outcomes) = max_retries
                    \/ outcomes # <<>> /\ outcomes[Len(outcomes)] = "Exception"
              /\ max_retries = 0 => outcomes = <<>> /\ download_result = Some(FALSE)

\* C30: download_file makes at most max_retries attempts, returns True at the
\* first attempt that succeeds and attempts nothing further, returns False
\* after max_retries URL/HTTP errors in a row and at once after any other
\* exception, returns False without an attempt when max_retries is 0, and
\* always returns.
C30_RetryProtocol ==
    /\ []RetryProtocol
    /\ [][pc = "returned" => UNCHANGED <<outcomes, download_result>>]_vars
    /\ (script = "download") ~> (pc = "returned")

\* max_retries URL/HTTP errors in a row, three or more, ended the call
C30_Witness ==
    /\ script = "download" /\ pc = "returned"
    /\ max_retries >= 3
    /\ Len(outcomes) = max_retries /\ AllRetryable(outcomes)
    /\ download_result = Some(FALSE)

----------------------------------------------------------------------------
(* C31 *)

Failed(p) == p.result = "False"

\* the number of dates at the end of seq that failed in a row
RECURSIVE TrailingFailures(_)
TrailingFailures(seq) ==
    IF seq = <<>> \/ ~Failed(seq[Len(seq)]) THEN 0
    ELSE 1 + TrailingFailures(SubSeq(seq, 1, Len(seq) - 1))

\* C31: execute_download processes the dates in ascending order, stops as
\* soon as 3 dates in a row have failed and processes no later date, resets
\* the count of consecutive failures at a successful date, and at its end
\* success_count plus the number of failed dates is the number of dates
\* processed, the return code being 0 exactly when no processed date failed.
C31_ConsecutiveFailureCutoff ==
    (script = "download" /\ dates # <<>>) =>
        /\ Len(processed) <= Len(dates)
        /\ \A k \in DOMAIN processed : processed[k].date = dates[k]
        /\ \A k \in 1..(Len(dates) - 1) : dates[k] < dates[k + 1]
        /\ \A k \in 1..(Len(processed) - 2) :
              (Failed(processed[k]) /\ Failed(processed[k + 1]) /\ Failed(processed[k + 2]))
                  => (k + 2 = Len(processed) /\ pc # "execute_download")
        /\ pc \in {"execute_download", "execute_summary", "execute_returned"} =>
              /\ consecutive_failures = TrailingFailures(processed)
              /\ success_count + Len(failed_dates) = Len(processed)
              /\ failed_dates = [k \in 1..Len(failed_dates) |->
                                    SelectSeq(processed, Failed)[k].date]
        /\ pc = "execute_download" => consecutive_failures < 3
        /\ pc = "execute_summary" => consecutive_failures >= 3
        /\ pc = "execute_returned" =>
              /\ Len(processed) = Len(dates) \/ TrailingFailures(processed) = 3
              /\ return_code \in {Some(0), Some(1)}
              /\ return_code = Some(0) <=>
                    \A k \in DOMAIN processed : processed[k].result = "True"
        /\ pc = "execute_raised" =>
              /\ return_code = Some(1)
              /\ processed[Len(processed)].result = "raise"

\* the run was cut off after three failures in a row that followed a success
\* and an earlier failure, with dates left unprocessed
C31_Witness ==
    /\ script = "download" /\ pc = "execute_returned"
    /\ Len(processed) = 5 /\ Len(dates) > 5
    /\ processed[1].result = "False" /\ processed[2].result = "True"
    /\ TrailingFailures(processed) = 3
    /\ return_code = Some(1)

----------------------------------------------------------------------------
(* C32 *)

\* the call of process_date for one market that was last to return returned
\* with this step
Returns(result) ==
    /\ Len(market_results') = Len(market_results) + 1
    /\ market_results'[Len(market_results')] = [market |-> market[1], result |-> result]

Converts ==
    Len(calls') = Len(calls) + 1 /\ calls'[Len(calls')].fn = "convert_to_ohlcv"

\* with every required output file in place, the call returns True and has
\* called nothing
SkipsWhenAllExist ==
    (pc = "date_check" /\ Required(market[1]) \subseteq output_files /\ pc' # "date_raised")
        => (Returns(TRUE) /\ calls' = calls)

\* convert_to_ohlcv is called only for a timeframe whose output file is missing
ConvertsOnlyMissing ==
    Converts => <<market[1], calls'[Len(calls')].tf>> \notin output_files

\* no conversion follows a failed conversion in the call for the same market
StopsAtFirstFailedConversion ==
    \A i, j \in DOMAIN calls :
        (i < j /\ calls[i].fn = "convert_to_ohlcv" /\ ~calls[i].ok
               /\ calls[j].market = calls[i].market)
            => calls[j].fn # "convert_to_ohlcv"

\* a call that returned True left an output file for every required timeframe
TrueMeansAllOutputs ==
    /\ \A k \in DOMAIN market_results :
           market_results[k].result => Required(market_results[k].market) \subseteq output_files
    /\ date_result = Some(TRUE) =>
           \A i \in DOMAIN MarketsOf(market_type) :
               Required(MarketsOf(market_type)[i]) \subseteq output_files

\* C32: process_date returns True without downloading or converting when
\* every required output file exists; otherwise it converts only the
\* timeframes whose output is missing, stops at the first failed conversion,
\* and returns True only if an output file then exists for every required
\* timeframe, a tick file without ticks included.
C32_ResultAndResume ==
    /\ [](script = "download" => (StopsAtFirstFailedConversion /\ TrueMeansAllOutputs))
    /\ [][script = "download" => (SkipsWhenAllExist /\ ConvertsOnlyMissing)]_vars

----------------------------------------------------------------------------
(* C33 *)

\* C33: whenever a call of process_date for a market has returned, True or
\* False, no temporary .csv of the date is left in that market's temp
\* directory, and no run takes the "Using existing CSV file" path on a file
\* that decompress_file left half written.
C33_NoTemporaryCsvLeft ==
    script = "download" =>
        /\ \A k \in DOMAIN market_results :
               temp_files[market_results[k].market].csv = "absent"
        /\ \A i \in DOMAIN calls :
               calls[i].fn = "existing_csv" => calls[i].tf # "partial"

----------------------------------------------------------------------------
(* C34 *)

BothOrder ==
    /\ Len(market_results) <= 2
    /\ \A k \in DOMAIN market_results :
           market_results[k].market = MarketsOf("both")[k]
    /\ \A i, j \in DOMAIN calls :
           (i < j /\ calls[i].market = "spot") => calls[j].market = "spot"
    /\ market = Some("spot") => Len(market_results) = 1
    /\ market = Some("futures") => market_results = <<>>
    /\ pc = "date_returned" =>
           /\ Len(market_results) = 2
           /\ date_result = Some(market_results[1].result /\ market_results[2].result)

\* the futures call, once returned, is followed by the spot call
SpotFollowsFutures ==
    (market = Some("futures") /\ market' # market /\ pc' # "date_raised")
        => (market' = Some("spot") /\ pc' = "date_check")

\* C34: with market type BOTH, process_date processes the date for futures
\* and then for spot, for spot also when futures returned False, and returns
\* True exactly when both calls returned True.
C34_BothFuturesThenSpot ==
    /\ []((script = "download" /\ market_type = "both") => BothOrder)
    /\ [][(script = "download" /\ market_type = "both") => SpotFollowsFutures]_vars

\* futures failed at its download, spot was then downloaded and converted, and
\* False was returned
C34_Witness ==
    /\ script = "download" /\ market_type = "both" /\ pc = "date_returned"
    /\ market_results = <<[market |-> "futures", result |-> FALSE],
                          [market |-> "spot", result |-> TRUE]>>
    /\ \E i \in DOMAIN calls : calls[i] = [fn |-> "download_file", market |-> "futures",
                                           tf |-> "", ok |-> FALSE]
    /\ \E i \in DOMAIN calls : calls[i].fn = "convert_to_ohlcv" /\ calls[i].market = "spot"
    /\ date_result = Some(FALSE)

====
